---------------------------- MODULE Spec2Model ----------------------------
(***************************************************************************)
(* The transactional access layer of lmdb-rs (src/src/transaction.rs,      *)
(* src/src/cursor.rs, src/src/environment.rs, src/src/error.rs) over the   *)
(* storage engine whose entry points are declared in                       *)
(* src/lmdb-sys/src/lib.rs.                                                *)
(*                                                                         *)
(* The wrapper operations are translated from their Rust code.  The engine *)
(* (liblmdb) is not part of the source files; the operators whose names    *)
(* start with mdb_ give its behaviour as the specification describes it:   *)
(* MVCC snapshots for readers, one write mutex, nested write transactions  *)
(* that merge into their parent on commit.                                 *)
(*                                                                         *)
(* The specifications share the actions: Spec runs the transactions of two *)
(* threads, CursorSpec adds cursors and held views to the transactions of  *)
(* one thread, DbiSpec adds Environment::open_db and create_db and the     *)
(* named database, ReserveSpec runs reserve and the writer it returns, and *)
(* NavSpec moves a cursor over a named database with or without sorted     *)
(* duplicates.  ItemsSpec runs the iterator Items, ErrSpec the conversions *)
(* between status codes and LmdbError, EnvSpec drops and opens the         *)
(* environment, read-only or not, ResultSpec has one thread call every     *)
(* fallible operation, and LockSpec has two threads call open_db and       *)
(* create_db with write transactions of their own.                         *)
(***************************************************************************)
EXTENDS Integers, FiniteSets, Sequences, TLC

(***************************************************************************)
(* Bounds.                                                                 *)
(***************************************************************************)
\* How deep write transactions nest below a top-level one.
MaxDepth == 1

Threads == {"t1", "t2"}
Keys == {"k1", "k2"}
Vals == {"v1", "v2"}
\* The key/value pairs put is called with.
Writes == (Keys \X Vals) \ {<<"k2", "v2">>}
\* The keys and values of the named database.
DKeys == {"k1", "k2", "k3"}
DVals == {"v1", "v2", "v3"}

\* A thread runs one top-level transaction at a time, and the nested
\* transactions below it: a handle is the thread and the nesting depth.
Handles == Threads \X (0 .. MaxDepth)
\* The handle of the transaction Environment::open_db or create_db, called by
\* the thread, runs in.
Internal(t) == <<t, -1>>
AllHandles == Handles \cup {Internal(t) : t \in Threads}
\* The null pointer (ptr::null_mut()).
NULL == <<>>
\* The engine cursors a process can have allocated at a time.
Cursors == {1, 2}
\* A key that holds no value.
Absent == "absent"
\* Option::None, and the name of the named database.
None == "None"
DbName == "db"
Names == {None, DbName}
\* The named databases the environment is configured for (set_max_dbs).
max_dbs == 1

(***************************************************************************)
(* Engine status codes and flags (src/lmdb-sys/src/lib.rs).                *)
(***************************************************************************)
MDB_SUCCESS == 0
MDB_KEYEXIST == -30799
MDB_NOTFOUND == -30798
MDB_PAGE_NOTFOUND == -30797
MDB_CORRUPTED == -30796
MDB_PANIC == -30795
MDB_VERSION_MISMATCH == -30794
MDB_INVALID == -30793
MDB_MAP_FULL == -30792
MDB_DBS_FULL == -30791
MDB_READERS_FULL == -30790
MDB_TLS_FULL == -30789
MDB_TXN_FULL == -30788
MDB_CURSOR_FULL == -30787
MDB_PAGE_FULL == -30786
MDB_MAP_RESIZED == -30785
MDB_INCOMPATIBLE == -30784
MDB_BAD_RSLOT == -30783
MDB_BAD_TXN == -30782
MDB_BAD_VALSIZE == -30781
MDB_BAD_DBI == -30780
\* Write flags.
MDB_NOOVERWRITE == 16
MDB_RESERVE == 65536
\* Database flags.
MDB_DUPSORT == 4
MDB_DUPFIXED == 16
MDB_CREATE == 262144
\* Environment flags; EnvironmentFlags::empty().bits() is 0.
MDB_RDONLY == 131072
NoFlags == 0

\* The flag words the wrapper passes, as the bits the engine tests.
RdOnlyBit(flags) == (flags \div MDB_RDONLY) % 2 = 1
NoOverwriteBit(flags) == (flags \div MDB_NOOVERWRITE) % 2 = 1
ReserveBit(flags) == (flags \div MDB_RESERVE) % 2 = 1
DupSortBit(flags) == (flags \div MDB_DUPSORT) % 2 = 1
DupFixedBit(flags) == (flags \div MDB_DUPFIXED) % 2 = 1
CreateBit(flags) == (flags \div MDB_CREATE) % 2 = 1

VARIABLES
    store,      \* engine: the committed contents of the default database
    dstore,     \* engine: the committed state of the named database
    txn,        \* engine: the transaction behind each handle
    wmutex,     \* engine: the handle holding the write mutex, or NULL
    wrapper,    \* wrapper: the live Rust value owning each handle
    pc,         \* per thread: "ready", or the call it is blocked in
    crashed,    \* the process dereferenced a null transaction handle
    expect,     \* ghost: per key, the value of the last committed write
    snap,       \* ghost: per handle, expect when the transaction began or was renewed
    exp,        \* ghost: per transaction, the contents its calls have announced
    last,       \* ghost: the call that returned in the last step, if it ended a
                \* transaction, had waited, or opened a database
    cursor,     \* per cursor: the engine cursor and the Rust value owning it
    held,       \* per handle: the byte view a caller holds of its data, if any
    dbi_open_mutex, \* environment: the thread holding dbi_open_mutex, or NoThread
    env,        \* the engine environment and the Environment value around it
    conv        \* an error code, the LmdbError made from it, and its code again

vars == <<store, dstore, txn, wmutex, wrapper, pc, crashed, expect, snap, exp, last,
          cursor, held, dbi_open_mutex, env, conv>>

EmptyView == [k \in Keys |-> Absent]
\* The named database: whether it exists, the flags it was created with, and
\* per key the set of its values (one at most without MDB_DUPSORT).  dropped
\* is a ghost: the database has been dropped.
EmptyData == [k \in DKeys |-> {}]
NoDb == [exists |-> FALSE, flags |-> 0, data |-> EmptyData, dropped |-> FALSE]
FreeTxn == [state |-> "free", rdonly |-> FALSE, parent |-> NULL, view |-> EmptyView,
            named |-> NoDb]
NoWrapper == [type |-> "none", via |-> "none", handle |-> NULL]
NoLast == [op |-> "none", via |-> "none", dirty |-> FALSE, h |-> NULL, err |-> "none"]
\* A cursor position before the first MDB_SET, MDB_FIRST or put.
Unset == "unset"
\* The database handles: the default database and the named one.
MAIN == "main"
NAMED == "named"
\* owner: the Rust value that holds the cursor pointer; open: the engine cursor is
\* allocated; txn: its transaction, NULL once that has ended or been reset.
\* excl: the value was built from a &'txn mut borrow of its transaction; ended: its
\* transaction has ended or been reset.  dbi: the database it runs over; pos and
\* dpos: the key it is at and, in an MDB_DUPSORT database, the duplicate.
\* op: the field op of an Items, the operation its next call issues; called is
\* a ghost: next has been called on it.
NoCursor == [owner |-> "none", open |-> FALSE, txn |-> NULL, excl |-> FALSE,
             ended |-> FALSE, dbi |-> MAIN, pos |-> Unset, dpos |-> Unset,
             op |-> "MDB_FIRST", called |-> FALSE]
\* An engine cursor no value points to any more, of a read-only transaction
\* that has ended.
Leaked == [owner |-> "none", open |-> TRUE, txn |-> NULL, excl |-> FALSE,
           ended |-> TRUE, dbi |-> MAIN, pos |-> Unset, dpos |-> Unset,
           op |-> "MDB_FIRST", called |-> FALSE]
\* via: the call that returned the view; stale: the engine has since changed or
\* released the pages it points into; excl: its lifetime is that of a &'txn mut
\* borrow; key: the key whose stored bytes a view of a key points at, or the
\* key a writable view belongs to; len: the length of a writable view.
NoView == [via |-> "none", stale |-> FALSE, excl |-> FALSE, key |-> Absent, len |-> 0]
NoThread == "none"
\* value: the Environment value exists; rdonly: it was opened with READ_ONLY;
\* config: the options its builder had set; calls: the engine calls made on its
\* MDB_env, in order.
NoEnv == [value |-> FALSE, rdonly |-> FALSE, config |-> {}, calls |-> <<>>]
\* The environment of the tests: Environment::new().set_max_dbs(1).open(..).
OpenEnv == [value |-> TRUE, rdonly |-> FALSE, config |-> {"max_dbs"},
            calls |-> <<"mdb_env_create", "mdb_env_set_maxdbs", "mdb_env_open">>]

(***************************************************************************)
(* error.rs                                                                *)
(***************************************************************************)
\* An LmdbError: the variant, and the code an Other carries.
LmdbError(variant, code) == [variant |-> variant, code |-> code]
NoError == LmdbError("none", 0)
Unit == "unit"
\* LmdbResult<T>
Ok(v) == [ok |-> TRUE, val |-> v, err |-> NoError]
Err(e) == [ok |-> FALSE, val |-> "none", err |-> e]

from_err_code(err_code) ==
    CASE err_code = MDB_KEYEXIST -> LmdbError("KeyExist", 0)
      [] err_code = MDB_NOTFOUND -> LmdbError("NotFound", 0)
      [] err_code = MDB_PAGE_NOTFOUND -> LmdbError("PageNotFound", 0)
      [] err_code = MDB_CORRUPTED -> LmdbError("Corrupted", 0)
      [] err_code = MDB_PANIC -> LmdbError("Panic", 0)
      [] err_code = MDB_VERSION_MISMATCH -> LmdbError("VersionMismatch", 0)
      [] err_code = MDB_INVALID -> LmdbError("Invalid", 0)
      [] err_code = MDB_MAP_FULL -> LmdbError("MapFull", 0)
      [] err_code = MDB_DBS_FULL -> LmdbError("DbsFull", 0)
      [] err_code = MDB_READERS_FULL -> LmdbError("ReadersFull", 0)
      [] err_code = MDB_TLS_FULL -> LmdbError("TlsFull", 0)
      [] err_code = MDB_TXN_FULL -> LmdbError("TxnFull", 0)
      [] err_code = MDB_CURSOR_FULL -> LmdbError("CursorFull", 0)
      [] err_code = MDB_PAGE_FULL -> LmdbError("PageFull", 0)
      [] err_code = MDB_MAP_RESIZED -> LmdbError("MapResized", 0)
      [] err_code = MDB_INCOMPATIBLE -> LmdbError("Incompatible", 0)
      [] err_code = MDB_BAD_RSLOT -> LmdbError("BadRslot", 0)
      [] err_code = MDB_BAD_TXN -> LmdbError("BadTxn", 0)
      [] err_code = MDB_BAD_VALSIZE -> LmdbError("BadValSize", 0)
      [] err_code = MDB_BAD_DBI -> LmdbError("BadDbi", 0)
      [] OTHER -> LmdbError("Other", err_code)

\* A conversion that hands back the code the error carries.
to_err_code_carried(self) == self.code

to_err_code(self) ==
    CASE self.variant = "KeyExist" -> MDB_KEYEXIST
      [] self.variant = "NotFound" -> MDB_NOTFOUND
      [] self.variant = "PageNotFound" -> MDB_PAGE_NOTFOUND
      [] self.variant = "Corrupted" -> MDB_CORRUPTED
      [] self.variant = "Panic" -> MDB_PANIC
      [] self.variant = "VersionMismatch" -> MDB_VERSION_MISMATCH
      [] self.variant = "Invalid" -> MDB_INVALID
      [] self.variant = "MapFull" -> MDB_MAP_FULL
      [] self.variant = "DbsFull" -> MDB_DBS_FULL
      [] self.variant = "ReadersFull" -> MDB_READERS_FULL
      [] self.variant = "TlsFull" -> MDB_TLS_FULL
      [] self.variant = "TxnFull" -> MDB_TXN_FULL
      [] self.variant = "CursorFull" -> MDB_CURSOR_FULL
      [] self.variant = "PageFull" -> MDB_PAGE_FULL
      [] self.variant = "MapResized" -> MDB_MAP_RESIZED
      [] self.variant = "Incompatible" -> MDB_INCOMPATIBLE
      [] self.variant = "BadRslot" -> MDB_BAD_RSLOT
      [] self.variant = "BadTxn" -> MDB_BAD_TXN
      [] self.variant = "BadValSize" -> MDB_BAD_VALSIZE
      [] self.variant = "BadDbi" -> MDB_BAD_DBI
      [] self.variant = "Other" -> self.code

\* No conversion has been made.
NoConv == [op |-> "none", code |-> 0, error |-> NoError, back |-> 0]

lmdb_result_inverted(err_code) ==
    IF err_code # MDB_SUCCESS THEN Ok(Unit) ELSE Err(from_err_code(err_code))

lmdb_result(err_code) ==
    IF err_code = MDB_SUCCESS THEN Ok(Unit) ELSE Err(from_err_code(err_code))

\* The status codes the conversions are called with: the engine's own and
\* those around them, errno values, and the ends of c_int.
Codes == (-30810 .. -30770) \cup (-3 .. 16) \cup {-2147483647 - 1, 2147483647}

\* LmdbError::from_err_code(err_code: c_int) -> LmdbError
LmdbError_from_err_code(err_code) ==
    /\ conv' = [op |-> "from_err_code", code |-> err_code,
                error |-> from_err_code(err_code), back |-> 0]
    /\ last' = NoLast
    /\ UNCHANGED <<store, dstore, txn, wmutex, wrapper, pc, crashed, expect, snap, exp>>
    /\ UNCHANGED <<cursor, held, dbi_open_mutex, env>>

\* to_err_code(&self) -> c_int, on the error the last conversion made.
LmdbError_to_err_code ==
    /\ conv.op = "from_err_code"
    /\ conv' = [conv EXCEPT !.op = "to_err_code", !.back = to_err_code(conv.error)]
    /\ last' = NoLast
    /\ UNCHANGED <<store, dstore, txn, wmutex, wrapper, pc, crashed, expect, snap, exp>>
    /\ UNCHANGED <<cursor, held, dbi_open_mutex, env>>

(***************************************************************************)
(* The engine.                                                             *)
(***************************************************************************)
Top(t) == <<t, 0>>
ThreadOf(h) == h[1]
Depth(h) == h[2]
Child(h) == <<h[1], h[2] + 1>>
Parent(h) == <<h[1], h[2] - 1>>

\* The calling thread's reader slot holds a running read-only transaction.
ReaderSlotBusy(t) ==
    \E h \in AllHandles : ThreadOf(h) = t /\ txn[h].state = "active" /\ txn[h].rdonly

\* errno values the engine hands through.
EIO == 5
ENOMEM == 12
EACCES == 13
EINVAL == 22

\* mdb_txn_begin waits for the write mutex: a top-level write transaction while
\* another one holds it.  A read-only environment refuses a write transaction
\* before it comes to the mutex.
mdb_txn_begin_waits(parent, flags) ==
    ~RdOnlyBit(flags) /\ parent = NULL /\ wmutex # NULL /\ ~env.rdonly

\* The statuses mdb_txn_begin can return once it does not wait.
mdb_txn_begin_rcs(t, parent, flags) ==
    IF RdOnlyBit(flags)
    THEN IF ReaderSlotBusy(t) THEN {MDB_BAD_RSLOT} ELSE {MDB_SUCCESS, MDB_READERS_FULL}
    ELSE IF env.rdonly THEN {EACCES}
    ELSE IF parent = NULL THEN {MDB_SUCCESS, MDB_PANIC}
    ELSE {MDB_SUCCESS, MDB_BAD_TXN}

\* The transaction mdb_txn_begin starts: a reader on the committed contents, a
\* child on its parent's pending contents, a writer on the committed contents.
mdb_txn_begin_txn(parent, flags) ==
    [state |-> "active", rdonly |-> RdOnlyBit(flags),
     parent |-> IF RdOnlyBit(flags) THEN NULL ELSE parent,
     view |-> IF ~RdOnlyBit(flags) /\ parent # NULL THEN txn[parent].view ELSE store,
     named |-> IF ~RdOnlyBit(flags) /\ parent # NULL THEN txn[parent].named ELSE dstore]

\* The write mutex after transaction h of the given kind has begun.
mdb_txn_begin_mutex(h, parent, flags) ==
    IF ~RdOnlyBit(flags) /\ parent = NULL THEN h ELSE wmutex

\* mdb_get: status and data.
mdb_get(h, k) ==
    IF txn[h].view[k] = Absent
    THEN [rc |-> MDB_NOTFOUND, data |-> Absent]
    ELSE [rc |-> MDB_SUCCESS, data |-> txn[h].view[k]]

\* mdb_put: the statuses it can return and the view a successful put leaves.
mdb_put_rcs(h, k, flags) ==
    IF NoOverwriteBit(flags) /\ txn[h].view[k] # Absent
    THEN {MDB_KEYEXIST}
    ELSE {MDB_SUCCESS, MDB_MAP_FULL}

mdb_put_view(h, k, v) == [txn[h].view EXCEPT ![k] = v]

\* mdb_put on the named database: the statuses it can return, and the database
\* a successful put leaves: without MDB_DUPSORT the value replaces that of the
\* key, with it the value joins the duplicates of the key.
mdb_put_named_rcs(h, k, flags) ==
    IF NoOverwriteBit(flags) /\ txn[h].named.data[k] # {}
    THEN {MDB_KEYEXIST}
    ELSE {MDB_SUCCESS, MDB_MAP_FULL}

\* An mdb_put that replaces the duplicates of the key.
mdb_put_named_replace(h, k, v) == [txn[h].named EXCEPT !.data[k] = {v}]

mdb_put_named(h, k, v) ==
    [txn[h].named EXCEPT !.data[k] = IF DupSortBit(txn[h].named.flags)
                                     THEN @ \cup {v}
                                     ELSE {v}]

\* The lengths in bytes of the values: "v1" stands for a value of one byte,
\* "v2" for one of two.
Lens == {1, 2}
Size(v) == IF v = "v1" THEN 1 ELSE 2

\* The bytes of a stored value of len bytes that nothing has written yet.
Uninit(len) == IF len = 1 THEN "u1" ELSE "u2"

\* What mdb_put stores and leaves in its data argument: with MDB_RESERVE it
\* copies nothing and hands back the place of mv_size bytes in the map.
mdb_put_data(v, mv_size, flags) ==
    IF ReserveBit(flags)
    THEN [stored |-> Uninit(mv_size), mv_size |-> mv_size]
    ELSE [stored |-> v, mv_size |-> mv_size]

\* mdb_del with a null data pointer.
mdb_del_rc(h, k) == IF txn[h].view[k] = Absent THEN MDB_NOTFOUND ELSE MDB_SUCCESS

\* An mdb_del that takes every key of the database with it.
mdb_del_view_all(h, k) == EmptyView

mdb_del_view(h, k) == [txn[h].view EXCEPT ![k] = Absent]

\* mdb_drop(txn, dbi, 1) on the named database: status, and the database it
\* leaves in the view of transaction h.
mdb_drop_rc(h) == IF txn[h].rdonly THEN EACCES ELSE MDB_SUCCESS

mdb_drop_named(h) == [NoDb EXCEPT !.dropped = TRUE]

\* mdb_txn_commit: a reader's commit only ends it; a writer's can be rejected.
mdb_txn_commit_rcs(h) ==
    IF txn[h].rdonly THEN {MDB_SUCCESS} ELSE {MDB_SUCCESS, MDB_MAP_FULL}

\* The transactions after mdb_txn_commit(h) returned rc: the handle is freed either
\* way, and a child's pending contents become its parent's on success.
mdb_txn_commit_txn(h, rc) ==
    IF rc = MDB_SUCCESS /\ ~txn[h].rdonly /\ txn[h].parent # NULL
    THEN [txn EXCEPT ![h] = FreeTxn, ![txn[h].parent].view = txn[h].view,
                     ![txn[h].parent].named = txn[h].named]
    ELSE [txn EXCEPT ![h] = FreeTxn]

\* The committed contents after mdb_txn_commit(h) returned rc.
mdb_txn_commit_store(h, rc) ==
    IF rc = MDB_SUCCESS /\ ~txn[h].rdonly /\ txn[h].parent = NULL
    THEN txn[h].view
    ELSE store

\* The committed named database after mdb_txn_commit(h) returned rc.
mdb_txn_commit_dstore(h, rc) ==
    IF rc = MDB_SUCCESS /\ ~txn[h].rdonly /\ txn[h].parent = NULL
    THEN txn[h].named
    ELSE dstore

\* The write mutex after transaction h has ended.
mdb_txn_end_mutex(h) == IF wmutex = h THEN NULL ELSE wmutex

\* The cursors after transaction h has ended or been reset: the engine frees the
\* cursors of a write transaction with it, and leaves those of a read-only
\* transaction allocated until mdb_cursor_close.
mdb_txn_end_cursors(h) ==
    [c \in Cursors |->
        IF cursor[c].txn # h \/ cursor[c].ended THEN cursor[c]
        ELSE IF cursor[c].owner = "none"
        THEN (IF txn[h].rdonly THEN Leaked ELSE NoCursor)
        ELSE [cursor[c] EXCEPT !.open = txn[h].rdonly, !.ended = TRUE, !.pos = Unset,
                               !.dpos = Unset]]

\* mdb_txn_abort: frees the handle.
mdb_txn_abort_txn(h) == [txn EXCEPT ![h] = FreeTxn]

\* mdb_txn_reset: the reader gives up its snapshot and keeps its handle.
mdb_txn_reset_txn(h) ==
    [txn EXCEPT ![h].state = "reset", ![h].view = EmptyView, ![h].named = NoDb]

\* mdb_txn_renew: the statuses it can return.
mdb_txn_renew_rcs(h) ==
    IF ReaderSlotBusy(ThreadOf(h)) THEN {MDB_BAD_RSLOT}
    ELSE {MDB_SUCCESS, MDB_READERS_FULL}

mdb_txn_renew_txn(h) ==
    [txn EXCEPT ![h].state = "active", ![h].view = store, ![h].named = dstore]

(***************************************************************************)
(* The wrapper: ownership.                                                 *)
(***************************************************************************)
Ready(t) == pc[t] = "ready" /\ ~crashed

\* A begin_nested_txn that takes &self and returns a value of lifetime 'env.
Borrowed_never(h) == FALSE

\* A child transaction borrows its parent mutably (&'txn mut self) for as long
\* as the child value lives.
Borrowed(h) == Depth(h) < MaxDepth /\ wrapper[Child(h)].type # "none"

\* The cursors opened in the running transaction h.
CursorsOf(h) == {c \in Cursors : cursor[c].txn = h /\ ~cursor[c].ended}

\* A RoCursor or RwCursor carries the lifetime of the borrow of the transaction
\* it was built from, and so does a view: the transaction stays borrowed while
\* one of them lives.  Items<'txn> has no field that uses 'txn.
Lent(h) ==
    \/ \E c \in CursorsOf(h) : cursor[c].owner \in {"RoCursor", "RwCursor"}
    \/ held[h] # NoView

\* The borrow is a &'txn mut one (open_rw_cursor).
LentMut(h) ==
    \/ \E c \in CursorsOf(h) : cursor[c].excl
    \/ held[h].excl

\* The value in slot h is of the given type, owns the engine handle h, and its
\* thread can use it by value or through &mut self.
Usable(h, type) ==
    /\ wrapper[h].type = type
    /\ wrapper[h].handle = h
    /\ Ready(ThreadOf(h))
    /\ ~Borrowed(h)
    /\ ~Lent(h)

\* The same, for a use through &self.
Shared(h, type) ==
    /\ wrapper[h].type = type
    /\ wrapper[h].handle = h
    /\ Ready(ThreadOf(h))
    /\ ~Borrowed(h)
    /\ ~LentMut(h)

\* Ghost: the contents transaction h started from.
Base(h) == IF Depth(h) = 0 THEN snap[h] ELSE exp[Parent(h)]

\* Ghost: transaction h has changed its contents.
Dirty(h) == exp[h] # Base(h)

\* Ghost: the keys h has changed laid over the contents m.
Merged(h, m) == [k \in Keys |-> IF exp[h][k] # Base(h)[k] THEN exp[h][k] ELSE m[k]]

\* The transaction value built around the handle mdb_txn_begin returned.
Begun(h, parent, flags, type, via, waited) ==
    /\ txn' = [txn EXCEPT ![h] = mdb_txn_begin_txn(parent, flags)]
    /\ wmutex' = mdb_txn_begin_mutex(h, parent, flags)
    /\ wrapper' = [wrapper EXCEPT ![h] = [type |-> type, via |-> via, handle |-> h]]
    /\ pc' = [pc EXCEPT ![ThreadOf(h)] = "ready"]
    /\ snap' = [snap EXCEPT ![h] = IF Depth(h) = 0 THEN expect ELSE EmptyView]
    /\ exp' = [exp EXCEPT ![h] = IF Depth(h) = 0 THEN expect ELSE exp[Parent(h)]]
    /\ last' = IF waited
               THEN [op |-> "returned", via |-> via, dirty |-> FALSE, h |-> h,
                     err |-> "none"]
               ELSE NoLast
    /\ UNCHANGED <<store, dstore, crashed, expect>>
    /\ UNCHANGED <<cursor, held, dbi_open_mutex, env, conv>>

\* The call returned Err, or Ok without a change: nothing but the ghost moves.
Nothing ==
    /\ last' = NoLast
    /\ UNCHANGED <<store, dstore, txn, wmutex, wrapper, pc, crashed, expect, snap, exp>>
    /\ UNCHANGED <<cursor, held, dbi_open_mutex, env, conv>>

\* The call op on transaction h returned Err(result.err): the Err is handed to
\* the caller and nothing else moves.
Failed(op, h, k, result) ==
    /\ last' = [op |-> op, via |-> k, dirty |-> FALSE, h |-> h,
                err |-> result.err.variant]
    /\ UNCHANGED <<store, dstore, txn, wmutex, wrapper, pc, crashed, expect, snap, exp>>
    /\ UNCHANGED <<cursor, held, dbi_open_mutex, env, conv>>

\* The thread stays inside mdb_txn_begin, waiting for the write mutex.
Waits(h, flags, call) ==
    /\ txn' = [txn EXCEPT ![h] = [state |-> "waiting", rdonly |-> RdOnlyBit(flags),
                                  parent |-> NULL, view |-> EmptyView,
                                  named |-> NoDb]]
    /\ pc' = [pc EXCEPT ![ThreadOf(h)] = call]
    /\ last' = NoLast
    /\ UNCHANGED <<store, dstore, wmutex, wrapper, crashed, expect, snap, exp>>
    /\ UNCHANGED <<cursor, held, dbi_open_mutex, env, conv>>

(***************************************************************************)
(* transaction.rs: beginning transactions.                                 *)
(***************************************************************************)
\* The thread holds no top-level transaction and no handle of it is left over.
CanBegin(t) ==
    /\ env.value
    /\ Ready(t)
    /\ txn[Top(t)].state = "free"
    /\ wrapper[Top(t)].type = "none"

\* A constructor that passes no MDB_RDONLY.
RoTransaction_new_noflag(t) ==
    /\ CanBegin(t)
    /\ IF mdb_txn_begin_waits(NULL, NoFlags)
       THEN Waits(Top(t), NoFlags, "begin_ro_txn")
       ELSE \E rc \in mdb_txn_begin_rcs(t, NULL, NoFlags) :
              IF lmdb_result(rc).ok
              THEN Begun(Top(t), NULL, NoFlags, "RoTransaction", "begin_ro_txn", FALSE)
              ELSE Nothing

RoTransaction_new(t) ==
    /\ CanBegin(t)
    /\ IF mdb_txn_begin_waits(NULL, MDB_RDONLY)
       THEN Waits(Top(t), MDB_RDONLY, "begin_ro_txn")
       ELSE \E rc \in mdb_txn_begin_rcs(t, NULL, MDB_RDONLY) :
              IF lmdb_result(rc).ok
              THEN Begun(Top(t), NULL, MDB_RDONLY, "RoTransaction", "begin_ro_txn", FALSE)
              ELSE Failed("begin_ro_txn", Top(t), None, lmdb_result(rc))

\* A constructor that passes MDB_RDONLY, as RoTransaction::new does.
RwTransaction_new_rdonly(t) ==
    /\ CanBegin(t)
    /\ IF mdb_txn_begin_waits(NULL, MDB_RDONLY)
       THEN Waits(Top(t), MDB_RDONLY, "begin_rw_txn")
       ELSE \E rc \in mdb_txn_begin_rcs(t, NULL, MDB_RDONLY) :
              IF lmdb_result(rc).ok
              THEN Begun(Top(t), NULL, MDB_RDONLY, "RwTransaction", "begin_rw_txn", FALSE)
              ELSE Nothing

RwTransaction_new(t) ==
    /\ CanBegin(t)
    /\ IF mdb_txn_begin_waits(NULL, NoFlags)
       THEN Waits(Top(t), NoFlags, "begin_rw_txn")
       ELSE \E rc \in mdb_txn_begin_rcs(t, NULL, NoFlags) :
              IF lmdb_result(rc).ok
              THEN Begun(Top(t), NULL, NoFlags, "RwTransaction", "begin_rw_txn", FALSE)
              ELSE Failed("begin_rw_txn", Top(t), None, lmdb_result(rc))

\* environment.rs
begin_ro_txn(t) == RoTransaction_new(t)

begin_rw_txn(t) == RwTransaction_new(t)

\* mdb_txn_begin returns to a waiting thread once the write mutex is free, and the
\* constructor that called it goes on.
mdb_txn_begin_returns(t) ==
    /\ pc[t] \in {"begin_ro_txn", "begin_rw_txn"}
    /\ ~crashed
    /\ wmutex = NULL
    /\ LET h == Top(t)
           flags == IF txn[h].rdonly THEN MDB_RDONLY ELSE NoFlags
           type == IF pc[t] = "begin_ro_txn" THEN "RoTransaction" ELSE "RwTransaction"
       IN \E rc \in mdb_txn_begin_rcs(t, NULL, flags) :
            IF lmdb_result(rc).ok
            THEN Begun(h, NULL, flags, type, pc[t], TRUE)
            ELSE /\ txn' = [txn EXCEPT ![h] = FreeTxn]
                 /\ pc' = [pc EXCEPT ![t] = "ready"]
                 /\ last' = NoLast
                 /\ UNCHANGED <<store, dstore, wmutex, wrapper, crashed, expect, snap, exp>>
                 /\ UNCHANGED <<cursor, held, dbi_open_mutex, env, conv>>

\* The value begin_nested_txn returns when the engine left nested null.
NullChild(c) ==
    /\ wrapper' = [wrapper EXCEPT ![c] =
                     [type |-> "RwTransaction", via |-> "begin_nested_txn", handle |-> NULL]]
    /\ last' = NoLast
    /\ UNCHANGED <<store, dstore, txn, wmutex, pc, crashed, expect, snap, exp>>
    /\ UNCHANGED <<cursor, held, dbi_open_mutex, env, conv>>

\* A begin_nested_txn that starts a transaction of its own: no parent, MDB_RDONLY.
begin_nested_txn_detached(p) ==
    /\ Usable(p, "RwTransaction")
    /\ Depth(p) < MaxDepth
    /\ \E rc \in mdb_txn_begin_rcs(ThreadOf(p), NULL, MDB_RDONLY) :
          IF rc = MDB_SUCCESS
          THEN Begun(Child(p), NULL, MDB_RDONLY, "RwTransaction", "begin_nested_txn", FALSE)
          ELSE NullChild(Child(p))

begin_nested_txn(p) ==
    /\ Usable(p, "RwTransaction")
    /\ Depth(p) < MaxDepth
    /\ \E rc \in mdb_txn_begin_rcs(ThreadOf(p), p, NoFlags) :
          \* The status is dropped; nested stays null when the engine fails.
          IF rc = MDB_SUCCESS
          THEN Begun(Child(p), p, NoFlags, "RwTransaction", "begin_nested_txn", FALSE)
          ELSE NullChild(Child(p))
(***************************************************************************)
(* transaction.rs: reading and writing.                                    *)
(***************************************************************************)
\* A get that hands back the key slice where the data slice belongs.
TransactionExt_get_key(h, k) ==
    LET r == mdb_get(h, k) IN
    IF r.rc = MDB_SUCCESS THEN Ok(k) ELSE Err(from_err_code(r.rc))

TransactionExt_get(h, k) ==
    LET r == mdb_get(h, k) IN
    IF r.rc = MDB_SUCCESS THEN Ok(r.data) ELSE Err(from_err_code(r.rc))

\* What a successful put does to the engine transaction and the ghost record.
PutDone(h, k, stored, written) ==
    /\ txn' = [txn EXCEPT ![h].view = mdb_put_view(h, k, stored)]
    /\ exp' = [exp EXCEPT ![h][k] = written]
    /\ last' = NoLast
    /\ UNCHANGED <<store, dstore, wmutex, wrapper, pc, crashed, expect, snap>>
    /\ UNCHANGED <<cursor, held, dbi_open_mutex, env, conv>>

\* A put whose data_val is built from the key slice.
RwTransaction_put_key_as_data(h, k, v, flags) ==
    /\ Usable(h, "RwTransaction")
    /\ \E rc \in mdb_put_rcs(h, k, flags) :
         IF lmdb_result(rc).ok THEN PutDone(h, k, k, v) ELSE Nothing

RwTransaction_put(h, k, v, flags) ==
    /\ Usable(h, "RwTransaction")
    /\ \E rc \in mdb_put_rcs(h, k, flags) :
         IF lmdb_result(rc).ok
         THEN PutDone(h, k, v, v)
         ELSE Failed("put", h, k, lmdb_result(rc))

\* Ghost: the record of a call on transaction h with key k that returned result.
Returned(op, h, k, result) ==
    [op |-> op, via |-> k, dirty |-> FALSE, h |-> h, err |-> result.err.variant]

\* put(&mut self, database, key, data, flags) with the handle of the named
\* database.
RwTransaction_put_named(h, k, v, flags) ==
    /\ Usable(h, "RwTransaction")
    /\ txn[h].named.exists
    /\ \E rc \in mdb_put_named_rcs(h, k, flags) :
         LET result == lmdb_result(rc) IN
         /\ txn' = IF result.ok
                   THEN [txn EXCEPT ![h].named = mdb_put_named(h, k, v)]
                   ELSE txn
         /\ last' = Returned("put", h, k, result)
    /\ UNCHANGED <<store, dstore, wmutex, wrapper, pc, crashed, expect, snap, exp>>
    /\ UNCHANGED <<cursor, held, dbi_open_mutex, env, conv>>

\* A reserve that takes &'txn self.
RwTransaction_reserve_shared(h, k, len, flags) ==
    /\ Usable(h, "RwTransaction")
    /\ \E rc \in mdb_put_rcs(h, k, flags + MDB_RESERVE) :
         LET result == lmdb_result(rc)
             data_val == mdb_put_data(Absent, len, flags + MDB_RESERVE)
         IN /\ txn' = IF result.ok
                      THEN [txn EXCEPT ![h].view = mdb_put_view(h, k, data_val.stored)]
                      ELSE txn
            /\ exp' = IF result.ok THEN [exp EXCEPT ![h][k] = data_val.stored] ELSE exp
            /\ held' = IF result.ok
                       THEN [held EXCEPT ![h] = [via |-> "reserve", stale |-> FALSE,
                                                 excl |-> FALSE, key |-> k,
                                                 len |-> data_val.mv_size]]
                       ELSE held
            /\ last' = Returned("reserve", h, k, result)
    /\ UNCHANGED <<store, dstore, wmutex, wrapper, pc, crashed, expect, snap>>
    /\ UNCHANGED <<cursor, dbi_open_mutex, env, conv>>

\* reserve<'txn>(&'txn mut self, database, key, len, flags)
\*     -> LmdbResult<BufWriter<'txn>>
RwTransaction_reserve(h, k, len, flags) ==
    /\ Usable(h, "RwTransaction")
    /\ \E rc \in mdb_put_rcs(h, k, flags + MDB_RESERVE) :
         LET result == lmdb_result(rc)
             data_val == mdb_put_data(Absent, len, flags + MDB_RESERVE)
         IN /\ txn' = IF result.ok
                      THEN [txn EXCEPT ![h].view = mdb_put_view(h, k, data_val.stored)]
                      ELSE txn
            /\ exp' = IF result.ok THEN [exp EXCEPT ![h][k] = data_val.stored] ELSE exp
            \* The slice of data_val.mv_size bytes at data_val.mv_data, in a BufWriter.
            /\ held' = IF result.ok
                       THEN [held EXCEPT ![h] = [via |-> "reserve", stale |-> FALSE,
                                                 excl |-> TRUE, key |-> k,
                                                 len |-> data_val.mv_size]]
                       ELSE held
            /\ last' = Returned("reserve", h, k, result)
    /\ UNCHANGED <<store, dstore, wmutex, wrapper, pc, crashed, expect, snap>>
    /\ UNCHANGED <<cursor, dbi_open_mutex, env, conv>>

\* BufWriter::write(&mut self, buf) with a buf that fills the slice: the bytes
\* go to the map.
BufWriter_write(h, v) ==
    /\ held[h].via = "reserve"
    /\ Ready(ThreadOf(h))
    /\ Size(v) = held[h].len
    /\ txn' = [txn EXCEPT ![h].view = mdb_put_view(h, held[h].key, v)]
    /\ exp' = [exp EXCEPT ![h][held[h].key] = v]
    /\ last' = NoLast
    /\ UNCHANGED <<store, dstore, wmutex, wrapper, pc, crashed, expect, snap>>
    /\ UNCHANGED <<cursor, held, dbi_open_mutex, env, conv>>

\* del(&mut self, database, key, None)
RwTransaction_del(h, k) ==
    /\ Usable(h, "RwTransaction")
    /\ LET result == lmdb_result(mdb_del_rc(h, k)) IN
       /\ txn' = IF result.ok THEN [txn EXCEPT ![h].view = mdb_del_view(h, k)] ELSE txn
       /\ exp' = IF result.ok THEN [exp EXCEPT ![h][k] = Absent] ELSE exp
       /\ last' = Returned("del", h, k, result)
    /\ UNCHANGED <<store, dstore, wmutex, wrapper, pc, crashed, expect, snap>>
    /\ UNCHANGED <<cursor, held, dbi_open_mutex, env, conv>>

\* mdb_drop(txn, dbi, 0) empties the database.
RwTransaction_clear_db(h) ==
    /\ Usable(h, "RwTransaction")
    /\ txn' = [txn EXCEPT ![h].view = EmptyView]
    /\ exp' = [exp EXCEPT ![h] = EmptyView]
    /\ last' = NoLast
    /\ UNCHANGED <<store, dstore, wmutex, wrapper, pc, crashed, expect, snap>>
    /\ UNCHANGED <<cursor, held, dbi_open_mutex, env, conv>>

\* drop_db(&mut self, db) with the handle of the named database:
\* mdb_drop(txn, dbi, 1) deletes the database from the environment.
RwTransaction_drop_db(h) ==
    /\ Usable(h, "RwTransaction")
    /\ txn[h].named.exists
    /\ LET result == lmdb_result(mdb_drop_rc(h)) IN
       /\ txn' = IF result.ok THEN [txn EXCEPT ![h].named = mdb_drop_named(h)] ELSE txn
       /\ last' = Returned("drop_db", h, DbName, result)
    /\ UNCHANGED <<store, dstore, wmutex, wrapper, pc, crashed, expect, snap, exp>>
    /\ UNCHANGED <<cursor, held, dbi_open_mutex, env, conv>>

(***************************************************************************)
(* transaction.rs: ending transactions.                                    *)
(***************************************************************************)
\* Ghost: the record of a call that consumed the value owning h.
Ended(h, op) ==
    [op |-> op, via |-> wrapper[h].via, dirty |-> Dirty(h), h |-> h, err |-> "none"]

\* Ghost: the writes of h, committed with a successful result, reach its parent's
\* contents (a child) or the committed contents (a top-level writer).
CommittedWrites(h, ok) ==
    /\ exp' = IF ok /\ wrapper[h].via = "begin_nested_txn"
              THEN [exp EXCEPT ![h] = EmptyView, ![Parent(h)] = exp[h]]
              ELSE [exp EXCEPT ![h] = EmptyView]
    /\ expect' = IF ok /\ wrapper[h].via = "begin_rw_txn"
                 THEN Merged(h, expect)
                 ELSE expect
    /\ snap' = [snap EXCEPT ![h] = EmptyView]

\* A commit that ends the engine transaction with mdb_txn_abort.
TransactionExt_commit_aborts(h) ==
    /\ \/ Usable(h, "RoTransaction")
       \/ Usable(h, "RwTransaction")
    /\ \E rc \in mdb_txn_commit_rcs(h) :
         LET result == lmdb_result(rc) IN
         /\ txn' = mdb_txn_abort_txn(h)
         /\ wmutex' = mdb_txn_end_mutex(h)
         /\ wrapper' = [wrapper EXCEPT ![h] = NoWrapper]
         /\ CommittedWrites(h, result.ok)
         /\ last' = Ended(h, IF result.ok THEN "commit_ok" ELSE "commit_err")
         /\ UNCHANGED <<store, dstore, pc, crashed>>
         /\ cursor' = mdb_txn_end_cursors(h)
         /\ UNCHANGED <<held, dbi_open_mutex, env, conv>>

TransactionExt_commit(h) ==
    /\ \/ Usable(h, "RoTransaction")
       \/ Usable(h, "RwTransaction")
    /\ \E rc \in mdb_txn_commit_rcs(h) :
         LET result == lmdb_result(rc) IN
         /\ txn' = mdb_txn_commit_txn(h, rc)
         /\ store' = mdb_txn_commit_store(h, rc)
         /\ dstore' = mdb_txn_commit_dstore(h, rc)
         /\ wmutex' = mdb_txn_end_mutex(h)
         \* mem::forget(self): no destructor runs on the handle.
         /\ wrapper' = [wrapper EXCEPT ![h] = NoWrapper]
         /\ CommittedWrites(h, result.ok)
         /\ last' = [Ended(h, IF result.ok THEN "commit_ok" ELSE "commit_err")
                        EXCEPT !.err = result.err.variant]
         /\ UNCHANGED <<pc, crashed>>
         /\ cursor' = mdb_txn_end_cursors(h)
         /\ UNCHANGED <<held, dbi_open_mutex, env, conv>>

\* Ghost: the value owning h is gone without a commit.
Dropped(h) ==
    /\ wrapper' = [wrapper EXCEPT ![h] = NoWrapper]
    /\ exp' = [exp EXCEPT ![h] = EmptyView]
    /\ snap' = [snap EXCEPT ![h] = EmptyView]
    /\ last' = Ended(h, "abort")
    /\ UNCHANGED <<pc, crashed, expect>>
    /\ cursor' = mdb_txn_end_cursors(h)
    /\ UNCHANGED <<held, dbi_open_mutex, env, conv>>

\* A destructor that calls mdb_txn_commit.
RwTransaction_drop_commits(h) ==
    /\ Usable(h, "RwTransaction")
    /\ txn' = mdb_txn_commit_txn(h, MDB_SUCCESS)
    /\ store' = mdb_txn_commit_store(h, MDB_SUCCESS)
    /\ dstore' = mdb_txn_commit_dstore(h, MDB_SUCCESS)
    /\ wmutex' = mdb_txn_end_mutex(h)
    /\ Dropped(h)

\* A destructor that makes no engine call.
RwTransaction_drop_leaks(h) ==
    /\ Usable(h, "RwTransaction")
    /\ UNCHANGED <<txn, store, dstore, wmutex>>
    /\ Dropped(h)

RwTransaction_drop(h) ==
    /\ Usable(h, "RwTransaction")
    /\ txn' = mdb_txn_abort_txn(h)
    /\ wmutex' = mdb_txn_end_mutex(h)
    /\ UNCHANGED <<store, dstore>>
    /\ Dropped(h)

RoTransaction_drop(h) ==
    /\ Usable(h, "RoTransaction")
    /\ txn' = mdb_txn_abort_txn(h)
    /\ wmutex' = mdb_txn_end_mutex(h)
    /\ UNCHANGED <<store, dstore>>
    /\ Dropped(h)

InactiveTransaction_drop(h) ==
    /\ Usable(h, "InactiveTransaction")
    /\ txn' = mdb_txn_abort_txn(h)
    /\ wmutex' = mdb_txn_end_mutex(h)
    /\ UNCHANGED <<store, dstore>>
    /\ Dropped(h)

\* abort(self) has an empty body: the value is consumed and its destructor runs.
TransactionExt_abort(h) ==
    \/ RoTransaction_drop(h)
    \/ RwTransaction_drop(h)

\* A reset after which the destructor of the RoTransaction runs as well.
RoTransaction_reset_drops(h) ==
    /\ Usable(h, "RoTransaction")
    /\ txn' = mdb_txn_abort_txn(h)
    /\ wrapper' = [wrapper EXCEPT ![h].type = "InactiveTransaction"]
    /\ exp' = [exp EXCEPT ![h] = EmptyView]
    /\ last' = NoLast
    /\ UNCHANGED <<store, dstore, wmutex, pc, crashed, expect, snap>>
    /\ cursor' = mdb_txn_end_cursors(h)
    /\ UNCHANGED <<held, dbi_open_mutex, env, conv>>

RoTransaction_reset(h) ==
    /\ Usable(h, "RoTransaction")
    /\ txn' = mdb_txn_reset_txn(h)
    /\ wrapper' = [wrapper EXCEPT ![h].type = "InactiveTransaction"]
    \* snap keeps the snapshot given up, for comparison at renew.
    /\ exp' = [exp EXCEPT ![h] = EmptyView]
    /\ last' = NoLast
    /\ UNCHANGED <<store, dstore, wmutex, pc, crashed, expect, snap>>
    /\ cursor' = mdb_txn_end_cursors(h)
    /\ UNCHANGED <<held, dbi_open_mutex, env, conv>>

\* A renew that builds the RoTransaction without calling mdb_txn_renew.
InactiveTransaction_renew_no_call(h) ==
    /\ Usable(h, "InactiveTransaction")
    /\ wrapper' = [wrapper EXCEPT ![h].type = "RoTransaction"]
    /\ snap' = [snap EXCEPT ![h] = expect]
    /\ exp' = [exp EXCEPT ![h] = expect]
    /\ last' = [op |-> "renewed", via |-> wrapper[h].via, dirty |-> snap[h] # expect,
                h |-> h, err |-> "none"]
    /\ UNCHANGED <<store, dstore, txn, wmutex, pc, crashed, expect>>
    /\ UNCHANGED <<cursor, held, dbi_open_mutex, env, conv>>

InactiveTransaction_renew(h) ==
    /\ Usable(h, "InactiveTransaction")
    /\ \E rc \in mdb_txn_renew_rcs(h) :
         IF lmdb_result(rc).ok
         THEN /\ txn' = mdb_txn_renew_txn(h)
              /\ wrapper' = [wrapper EXCEPT ![h].type = "RoTransaction"]
              /\ snap' = [snap EXCEPT ![h] = expect]
              /\ exp' = [exp EXCEPT ![h] = expect]
              \* Ghost: dirty tells that the snapshot given up at reset was another.
              /\ last' = [op |-> "renewed", via |-> wrapper[h].via,
                          dirty |-> snap[h] # expect, h |-> h, err |-> "none"]
              /\ UNCHANGED <<store, dstore, wmutex, pc, crashed, expect>>
              /\ UNCHANGED <<cursor, held, dbi_open_mutex, env, conv>>
         \* mem::forget(self) came before try!: the value is gone, the handle is not.
         ELSE /\ wrapper' = [wrapper EXCEPT ![h] = NoWrapper]
              /\ snap' = [snap EXCEPT ![h] = EmptyView]
              /\ last' = [op |-> "renew", via |-> wrapper[h].via, dirty |-> FALSE,
                          h |-> h, err |-> lmdb_result(rc).err.variant]
              /\ UNCHANGED <<store, dstore, txn, wmutex, pc, crashed, expect, exp>>
              /\ UNCHANGED <<cursor, held, dbi_open_mutex, env, conv>>

(***************************************************************************)
(* An RwTransaction around the null handle, left by begin_nested_txn.      *)
(***************************************************************************)
NullUsable(c) ==
    /\ wrapper[c].type = "RwTransaction"
    /\ wrapper[c].handle = NULL
    /\ Ready(ThreadOf(c))
    /\ ~Borrowed(c)

\* Drop, or commit: mdb_txn_abort and mdb_txn_commit return at once on null.
NullChild_end(c) ==
    /\ NullUsable(c)
    /\ wrapper' = [wrapper EXCEPT ![c] = NoWrapper]
    /\ last' = NoLast
    /\ UNCHANGED <<store, dstore, txn, wmutex, pc, crashed, expect, snap, exp>>
    /\ UNCHANGED <<cursor, held, dbi_open_mutex, env, conv>>

\* get, put, del, clear_db or begin_nested_txn: the engine dereferences the handle.
NullChild_use(c) ==
    /\ NullUsable(c)
    /\ crashed' = TRUE
    /\ last' = NoLast
    /\ UNCHANGED <<store, dstore, txn, wmutex, wrapper, pc, expect, snap, exp>>
    /\ UNCHANGED <<cursor, held, dbi_open_mutex, env, conv>>

(***************************************************************************)
(* The engine's cursors.                                                   *)
(***************************************************************************)
\* The keys and the values in the order the engine keeps them.
KeyOrder == <<"k1", "k2", "k3">>
Rank(k) == CHOOSE i \in 1 .. Len(KeyOrder) : KeyOrder[i] = k
ValOrder == <<"u1", "u2", "v1", "v2", "v3">>
VRank(v) == CHOOSE i \in 1 .. Len(ValOrder) : ValOrder[i] = v

KLeast(S) == CHOOSE x \in S : \A y \in S : Rank(x) <= Rank(y)
KMost(S) == CHOOSE x \in S : \A y \in S : Rank(x) >= Rank(y)
VLeast(S) == CHOOSE v \in S : \A w \in S : VRank(v) <= VRank(w)
VMost(S) == CHOOSE v \in S : \A w \in S : VRank(v) >= VRank(w)

\* The values of S in order.
SortedSeq(S) ==
    [i \in 1 .. Cardinality(S) |->
        CHOOSE v \in S : Cardinality({w \in S : VRank(w) < VRank(v)}) = i - 1]

\* The duplicates of one key that fit on a page of an MDB_DUPFIXED database.
PageDups == 2

\* The duplicates S of a key that lie on the page of its duplicate v.
PageOf(S, v) == Cardinality({w \in S : VRank(w) < VRank(v)}) \div PageDups
\* A page that holds every duplicate of the key.
PageSet_whole(S, v) == S
PageSet(S, v) == {w \in S : PageOf(S, w) = PageOf(S, v)}

\* The database cursor c runs over: its flags, and per key the set of its
\* values.
CursorFlags(c) ==
    IF cursor[c].dbi = NAMED THEN txn[cursor[c].txn].named.flags ELSE NoFlags

CursorData(c) ==
    IF cursor[c].dbi = NAMED THEN txn[cursor[c].txn].named.data
    ELSE [x \in DKeys |->
            IF x \in Keys /\ txn[cursor[c].txn].view[x] # Absent
            THEN {txn[cursor[c].txn].view[x]}
            ELSE {}]

\* What mdb_cursor_get returns when it found nothing, and when it is at the
\* pair of key x and value v.
NotAt(rc, pos, dpos) ==
    [rc |-> rc, pos |-> pos, dpos |-> dpos, keyset |-> FALSE, key |-> Absent,
     data |-> <<>>]

At(x, v, dup, keyset, data) ==
    [rc |-> MDB_SUCCESS, pos |-> x, dpos |-> IF dup THEN v ELSE Unset,
     keyset |-> keyset, key |-> x, data |-> data]

\* mdb_cursor_open: the statuses it can return.
mdb_cursor_open_rcs(h) == {MDB_SUCCESS, MDB_BAD_TXN}

\* The slot of the engine cursor mdb_cursor_open allocates.
FreeCursors == {c \in Cursors : cursor[c] = NoCursor /\ \A d \in Cursors : d < c => cursor[d] # NoCursor}

\* mdb_cursor_get: status, the position it leaves, whether it wrote the key
\* argument (keyset), the key of the pair it is at, and the data it hands back,
\* as a sequence of values: one, or with MDB_GET_MULTIPLE and MDB_NEXT_MULTIPLE
\* those of a page.  A move that finds nothing leaves the position; a search
\* that finds nothing leaves the cursor unpositioned.
mdb_cursor_get(c, op, k, d) ==
    LET D == CursorData(c)
        dup == DupSortBit(CursorFlags(c))
        fixed == DupFixedBit(CursorFlags(c))
        pos == cursor[c].pos
        dpos == cursor[c].dpos
        present == {x \in DKeys : D[x] # {}}
        \* The cursor is at a pair.
        set == pos # Unset /\ (IF dup THEN dpos # Unset ELSE D[pos] # {})
        here == IF dup THEN dpos ELSE VLeast(D[pos])
        after == IF pos = Unset THEN present ELSE {x \in present : Rank(x) > Rank(pos)}
        before == IF pos = Unset THEN present ELSE {x \in present : Rank(x) < Rank(pos)}
        dafter == IF dup /\ set THEN {v \in D[pos] : VRank(v) > VRank(dpos)} ELSE {}
        dbefore == IF dup /\ set THEN {v \in D[pos] : VRank(v) < VRank(dpos)} ELSE {}
        Stay(rc) == NotAt(rc, pos, dpos)
        Lost(rc) == NotAt(rc, Unset, Unset)
        One(x, v, keyset) == At(x, v, dup, keyset, <<v>>)
        Page(x, v, keyset) ==
            At(x, VMost(PageSet(D[x], v)), dup, keyset, SortedSeq(PageSet(D[x], v)))
        FirstOf(S, miss) ==
            IF S = {} THEN miss ELSE LET x == KLeast(S) IN One(x, VLeast(D[x]), TRUE)
        LastOf(S, miss) ==
            IF S = {} THEN miss ELSE LET x == KMost(S) IN One(x, VMost(D[x]), TRUE)
    IN CASE op = "MDB_FIRST" -> FirstOf(present, Lost(MDB_NOTFOUND))
         [] op = "MDB_LAST" -> LastOf(present, Lost(MDB_NOTFOUND))
         [] op = "MDB_NEXT" ->
              IF dafter # {} THEN One(pos, VLeast(dafter), TRUE)
              ELSE FirstOf(after, Stay(MDB_NOTFOUND))
         [] op = "MDB_PREV" ->
              IF dbefore # {} THEN One(pos, VMost(dbefore), TRUE)
              ELSE LastOf(before, Stay(MDB_NOTFOUND))
         [] op = "MDB_NEXT_NODUP" -> FirstOf(after, Stay(MDB_NOTFOUND))
         [] op = "MDB_PREV_NODUP" -> LastOf(before, Stay(MDB_NOTFOUND))
         [] op = "MDB_NEXT_DUP" ->
              IF ~set THEN FirstOf(present, Lost(MDB_NOTFOUND))
              ELSE IF dafter # {} THEN One(pos, VLeast(dafter), TRUE)
              ELSE Stay(MDB_NOTFOUND)
         [] op = "MDB_PREV_DUP" ->
              IF ~set THEN LastOf(present, Lost(MDB_NOTFOUND))
              ELSE IF dbefore # {} THEN One(pos, VMost(dbefore), TRUE)
              ELSE Stay(MDB_NOTFOUND)
         [] op = "MDB_GET_CURRENT" ->
              IF ~set THEN Stay(EINVAL) ELSE One(pos, here, TRUE)
         [] op \in {"MDB_SET", "MDB_SET_KEY"} ->
              IF k = None THEN Stay(MDB_BAD_VALSIZE)
              ELSE IF D[k] = {} THEN Lost(MDB_NOTFOUND)
              ELSE One(k, VLeast(D[k]), op = "MDB_SET_KEY")
         [] op = "MDB_SET_RANGE" ->
              IF k = None THEN Stay(MDB_BAD_VALSIZE)
              ELSE FirstOf({x \in present : Rank(x) >= Rank(k)}, Lost(MDB_NOTFOUND))
         [] op \in {"MDB_GET_BOTH", "MDB_GET_BOTH_RANGE"} ->
              IF ~dup THEN Stay(MDB_INCOMPATIBLE)
              ELSE IF k = None \/ d = None THEN Stay(EINVAL)
              ELSE LET S == IF op = "MDB_GET_BOTH" THEN D[k] \cap {d}
                            ELSE {v \in D[k] : VRank(v) >= VRank(d)}
                   IN IF S = {} THEN Lost(MDB_NOTFOUND) ELSE One(k, VLeast(S), FALSE)
         [] op \in {"MDB_FIRST_DUP", "MDB_LAST_DUP"} ->
              IF ~dup THEN Stay(MDB_INCOMPATIBLE)
              ELSE IF ~set THEN Stay(EINVAL)
              ELSE One(pos, IF op = "MDB_FIRST_DUP" THEN VLeast(D[pos]) ELSE VMost(D[pos]),
                       FALSE)
         [] op = "MDB_GET_MULTIPLE" ->
              IF ~fixed THEN Stay(MDB_INCOMPATIBLE)
              ELSE IF ~set THEN Stay(EINVAL)
              ELSE Page(pos, dpos, FALSE)
         [] op = "MDB_NEXT_MULTIPLE" ->
              IF ~fixed THEN Stay(MDB_INCOMPATIBLE)
              ELSE IF ~set
              THEN (IF present = {} THEN Lost(MDB_NOTFOUND)
                    ELSE LET x == KLeast(present) IN Page(x, VLeast(D[x]), TRUE))
              ELSE IF dafter # {} THEN Page(pos, VLeast(dafter), TRUE)
              ELSE Stay(MDB_NOTFOUND)

\* mdb_cursor_put: the statuses it can return.
mdb_cursor_put_rcs(c, k, flags) ==
    IF txn[cursor[c].txn].rdonly THEN {EACCES} ELSE mdb_put_rcs(cursor[c].txn, k, flags)

\* mdb_cursor_del: deletes the pair the cursor is at.
mdb_cursor_del_rc(c) ==
    IF txn[cursor[c].txn].rdonly THEN EACCES
    ELSE IF cursor[c].pos = Unset THEN EINVAL
    ELSE mdb_del_rc(cursor[c].txn, cursor[c].pos)

(***************************************************************************)
(* cursor.rs                                                               *)
(***************************************************************************)
\* The cursor value built around the pointer mdb_cursor_open returned.
Opened(c, h, db, owner, excl) ==
    /\ cursor' = [cursor EXCEPT ![c] = [owner |-> owner, open |-> TRUE, txn |-> h,
                                        excl |-> excl, ended |-> FALSE, dbi |-> db,
                                        pos |-> Unset, dpos |-> Unset,
                                        op |-> "MDB_FIRST", called |-> FALSE]]
    /\ last' = NoLast
    /\ UNCHANGED <<store, dstore, txn, wmutex, wrapper, pc, crashed, expect, snap, exp>>
    /\ UNCHANGED <<held, dbi_open_mutex, env, conv>>

\* RoCursor::new(txn: &'txn Transaction, db: Database); db is the handle of the
\* default database or of the named one, which the transaction then sees.
RoCursor_new(h, db) ==
    /\ \/ Shared(h, "RoTransaction")
       \/ Shared(h, "RwTransaction")
    /\ db = NAMED => txn[h].named.exists
    /\ \E c \in FreeCursors, rc \in mdb_cursor_open_rcs(h) :
         IF lmdb_result(rc).ok THEN Opened(c, h, db, "RoCursor", FALSE) ELSE Nothing

open_ro_cursor(h, db) == RoCursor_new(h, db)

\* RwCursor::new(txn: &'txn Transaction, ..), on the default database.
RwCursor_new(h) ==
    /\ \/ Shared(h, "RoTransaction")
       \/ Shared(h, "RwTransaction")
    /\ \E c \in FreeCursors, rc \in mdb_cursor_open_rcs(h) :
         IF lmdb_result(rc).ok THEN Opened(c, h, MAIN, "RwCursor", FALSE) ELSE Nothing

\* open_rw_cursor(&'txn mut self, ..) calls RwCursor::new(self, db); on the
\* default database.
open_rw_cursor(h) ==
    /\ Usable(h, "RwTransaction")
    /\ \E c \in FreeCursors, rc \in mdb_cursor_open_rcs(h) :
         IF lmdb_result(rc).ok THEN Opened(c, h, MAIN, "RwCursor", TRUE) ELSE Nothing

\* Items::new(txn: &'txn Transaction, ..), on the default database.
Items_new(h) ==
    /\ \/ Shared(h, "RoTransaction")
       \/ Shared(h, "RwTransaction")
    /\ \E c \in FreeCursors, rc \in mdb_cursor_open_rcs(h) :
         IF lmdb_result(rc).ok THEN Opened(c, h, MAIN, "Items", FALSE) ELSE Nothing

\* The value owning cursor c is of one of the given types and its thread can
\* use it.
CursorUsable(c, owners) ==
    /\ cursor[c].owner \in owners
    /\ Ready(ThreadOf(cursor[c].txn))

\* The view a successful get hands out, with the lifetime 'txn of its source.
Viewed(h, via, excl, key) ==
    IF held[h] = NoView
    THEN [held EXCEPT ![h] = [via |-> via, stale |-> FALSE, excl |-> excl,
                              key |-> key, len |-> 0]]
    ELSE held

\* The views of transaction h after a write to it.
Invalidated(h) ==
    IF held[h] = NoView THEN held ELSE [held EXCEPT ![h].stale = TRUE]

\* TransactionExt::get<'txn>(&'txn self, ..) -> LmdbResult<&'txn [u8]>, as a call
\* whose result the caller keeps.
TransactionExt_get_call(h, k) ==
    /\ \/ Shared(h, "RoTransaction")
       \/ Shared(h, "RwTransaction")
    /\ held' = IF TransactionExt_get(h, k).ok THEN Viewed(h, "get", FALSE, Absent) ELSE held
    /\ last' = Returned("txn_get", h, k, TransactionExt_get(h, k))
    /\ UNCHANGED <<store, dstore, txn, wmutex, wrapper, pc, crashed, expect, snap, exp>>
    /\ UNCHANGED <<cursor, dbi_open_mutex, env, conv>>

\* The caller lets go of the view it held.
View_drop(h) ==
    /\ held[h] # NoView
    /\ Ready(ThreadOf(h))
    /\ held' = [held EXCEPT ![h] = NoView]
    /\ last' = NoLast
    /\ UNCHANGED <<store, dstore, txn, wmutex, wrapper, pc, crashed, expect, snap, exp>>
    /\ UNCHANGED <<cursor, dbi_open_mutex, env, conv>>

\* ReadCursor::get(&self, key, data, op)
\*     -> LmdbResult<(Option<&'txn [u8]>, &'txn [u8])>
\* k and d are the bytes of key and data, or None.  mapped: the key slice the
\* caller passes is the view of the stored key that it holds, so key_ptr is the
\* place of that key in the map; otherwise key_ptr is null or a buffer of the
\* caller.  The result: Ok of the pair (key_out, data_out), or Err.
ReadCursor_get_result(c, op, k, d, mapped) ==
    LET r == mdb_cursor_get(c, op, k, d)
        \* key_ptr != key_val.mv_data
        key_out == IF r.keyset /\ ~(mapped /\ r.key = k) THEN r.key ELSE None
    IN IF lmdb_result(r.rc).ok
       THEN Ok([key |-> key_out, data |-> r.data])
       ELSE Err(from_err_code(r.rc))

\* The call, with the views it returns kept by the caller.
ReadCursor_get(c, op, k, d, mapped) ==
    /\ CursorUsable(c, {"RoCursor", "RwCursor"})
    /\ mapped => /\ k # None
                 /\ held[cursor[c].txn].key = k
                 /\ ~held[cursor[c].txn].stale
    /\ LET h == cursor[c].txn
           r == mdb_cursor_get(c, op, k, d)
           result == ReadCursor_get_result(c, op, k, d, mapped)
       IN /\ cursor' = [cursor EXCEPT ![c].pos = r.pos, ![c].dpos = r.dpos]
          /\ held' = IF result.ok
                     THEN Viewed(h, cursor[c].owner, cursor[c].excl,
                                 IF result.val.key = None THEN Absent
                                 ELSE result.val.key)
                     ELSE held
          /\ last' = Returned("get", h, op, result)
    /\ UNCHANGED <<store, dstore, txn, wmutex, wrapper, pc, crashed, expect, snap, exp>>
    /\ UNCHANGED <<dbi_open_mutex, env, conv>>

\* WriteCursor::put(&self, ..)
WriteCursor_put(c, k, v, flags) ==
    /\ CursorUsable(c, {"RwCursor"})
    /\ LET h == cursor[c].txn IN
       \E rc \in mdb_cursor_put_rcs(c, k, flags) :
         IF lmdb_result(rc).ok
         THEN /\ txn' = [txn EXCEPT ![h].view = mdb_put_view(h, k, v)]
              /\ exp' = [exp EXCEPT ![h][k] = v]
              /\ cursor' = [cursor EXCEPT ![c].pos = k]
              /\ held' = Invalidated(h)
              /\ last' = NoLast
              /\ UNCHANGED <<store, dstore, wmutex, wrapper, pc, crashed, expect, snap>>
              /\ UNCHANGED <<dbi_open_mutex, env, conv>>
         ELSE Failed("cursor_put", h, k, lmdb_result(rc))

\* WriteCursor::del(&self, ..)
WriteCursor_del(c) ==
    /\ CursorUsable(c, {"RwCursor"})
    /\ LET h == cursor[c].txn IN
       IF lmdb_result(mdb_cursor_del_rc(c)).ok
       THEN /\ txn' = [txn EXCEPT ![h].view = mdb_del_view(h, cursor[c].pos)]
            /\ exp' = [exp EXCEPT ![h][cursor[c].pos] = Absent]
            /\ held' = Invalidated(h)
            /\ last' = NoLast
            /\ UNCHANGED <<store, dstore, wmutex, wrapper, pc, crashed, expect, snap>>
            /\ UNCHANGED <<cursor, dbi_open_mutex, env, conv>>
       ELSE Failed("cursor_del", h, None, lmdb_result(mdb_cursor_del_rc(c)))

\* The destructor ran mdb_cursor_close.
Closed(c) ==
    /\ cursor' = [cursor EXCEPT ![c] = NoCursor]
    /\ last' = NoLast
    /\ UNCHANGED <<store, dstore, txn, wmutex, wrapper, pc, crashed, expect, snap, exp>>
    /\ UNCHANGED <<held, dbi_open_mutex, env, conv>>

RoCursor_drop(c) == CursorUsable(c, {"RoCursor"}) /\ Closed(c)

RwCursor_drop(c) == CursorUsable(c, {"RwCursor"}) /\ Closed(c)

\* An Items whose next_op is the operation it starts with.
next_op_first == "MDB_FIRST"

\* Items { cursor: cursor, op: ffi::MDB_FIRST, next_op: ffi::MDB_NEXT }
next_op == "MDB_NEXT"

\* debug_assert! is compiled into a debug build and out of a release build.
Builds == {"debug", "release"}

\* mdb_cursor_get with no key, as Items::next calls it: the status of the move,
\* or that of a page the engine could not read.
mdb_cursor_get_rcs(c, op) == {mdb_cursor_get(c, op, None, None).rc, MDB_PAGE_NOTFOUND}

\* What a call of next handed to its caller: Some of the pair of key k, None,
\* Some of the pair of two empty slices, or the panic of an assertion.
Yielded(h, k, err_code) ==
    [op |-> "next", via |-> k, dirty |-> FALSE, h |-> h,
     err |-> IF err_code = MDB_SUCCESS THEN "none" ELSE from_err_code(err_code).variant]

\* Iterator::next for Items.  On a cursor whose transaction has ended the engine
\* reads released memory: the call can return anything, or fault.
Items_next(c) ==
    /\ CursorUsable(c, {"Items"})
    /\ IF cursor[c].ended
       THEN /\ crashed' \in BOOLEAN
            /\ last' = NoLast
            /\ UNCHANGED <<store, dstore, txn, wmutex, wrapper, pc, expect, snap, exp>>
            /\ UNCHANGED <<cursor, held, dbi_open_mutex, env, conv>>
       ELSE /\ \E err_code \in mdb_cursor_get_rcs(c, cursor[c].op), build \in Builds :
                 LET h == cursor[c].txn
                     r == mdb_cursor_get(c, cursor[c].op, None, None)
                 IN IF err_code = MDB_NOTFOUND
                    THEN /\ cursor' = [cursor EXCEPT ![c].pos = r.pos, ![c].called = TRUE]
                         /\ last' = Yielded(h, None, err_code)
                    ELSE IF err_code # 0 /\ build = "debug"
                    THEN \* debug_assert!(err_code == 0, ..)
                         /\ cursor' = [cursor EXCEPT ![c].called = TRUE]
                         /\ last' = Yielded(h, "panic", err_code)
                    ELSE \* self.op = self.next_op; Some((val_to_slice(key), ..))
                         /\ cursor' = [cursor EXCEPT
                                         ![c].pos = IF err_code = 0 THEN r.pos ELSE @,
                                         ![c].op = next_op,
                                         ![c].called = TRUE]
                         /\ last' = Yielded(h, IF err_code = 0 THEN r.key ELSE "empty",
                                            err_code)
            /\ UNCHANGED <<store, dstore, txn, wmutex, wrapper, pc, crashed, expect, snap, exp>>
            /\ UNCHANGED <<held, dbi_open_mutex, env, conv>>

\* Items has no destructor: the value goes, the engine cursor stays.
Items_drop(c) ==
    /\ CursorUsable(c, {"Items"})
    /\ cursor' = [cursor EXCEPT ![c] =
                    IF ~cursor[c].ended
                    THEN [cursor[c] EXCEPT !.owner = "none", !.pos = Unset, !.dpos = Unset,
                                           !.op = "MDB_FIRST", !.called = FALSE]
                    ELSE IF cursor[c].open THEN Leaked ELSE NoCursor]
    /\ last' = NoLast
    /\ UNCHANGED <<store, dstore, txn, wmutex, wrapper, pc, crashed, expect, snap, exp>>
    /\ UNCHANGED <<held, dbi_open_mutex, env, conv>>

\* The DatabaseFlags create_db is called with.
DbFlagSets == {NoFlags, MDB_DUPSORT, MDB_DUPSORT + MDB_DUPFIXED}

(***************************************************************************)
(* environment.rs: open_db and create_db.                                  *)
(*                                                                         *)
(*   let mutex = self.dbi_open_mutex.lock();                               *)
(*   let txn = try!(self.begin_ro_txn());       begin_rw_txn in create_db  *)
(*   let db = unsafe { try!(txn.open_db(name)) };                          *)
(*   try!(txn.commit());                                                   *)
(*   drop(mutex);                                                          *)
(*   Ok(db)                                                                *)
(*                                                                         *)
(* pc is the statement the thread is at.                                   *)
(***************************************************************************)
\* An mdb_dbi_open that does not look the name up in the environment.
mdb_dbi_open_rcs_any(h, name, flags) ==
    IF CreateBit(flags) THEN {MDB_SUCCESS, MDB_DBS_FULL} ELSE {MDB_SUCCESS, MDB_NOTFOUND}

\* mdb_dbi_open: the statuses it can return.  The default database is always
\* there; a named one is looked up in the transaction's view of the environment
\* and, with MDB_CREATE, created when it is missing.
mdb_dbi_open_rcs(h, name, flags) ==
    IF name = None \/ txn[h].named.exists THEN {MDB_SUCCESS}
    ELSE IF max_dbs < 1 THEN {MDB_DBS_FULL}
    ELSE IF ~CreateBit(flags) THEN {MDB_NOTFOUND}
    ELSE IF txn[h].rdonly THEN {EACCES}
    ELSE {MDB_SUCCESS, MDB_MAP_FULL}

\* The named database in the view of transaction h after a successful
\* mdb_dbi_open.
mdb_dbi_open_named(h, name, flags) ==
    IF name = None \/ txn[h].named.exists THEN txn[h].named
    ELSE [exists |-> TRUE, flags |-> flags - MDB_CREATE, data |-> EmptyData,
          dropped |-> txn[h].named.dropped]

\* The call returns: its locals are dropped, the guard of dbi_open_mutex last.
\* A return that keeps the mutex guard.
DbiReturns_locked(t, call, result) ==
    /\ pc' = [pc EXCEPT ![t] = "ready"]
    /\ dbi_open_mutex' = dbi_open_mutex
    /\ last' = [op |-> call, via |-> call, dirty |-> FALSE, h |-> Internal(t),
                err |-> result.err.variant]

DbiReturns(t, call, result) ==
    /\ pc' = [pc EXCEPT ![t] = "ready"]
    /\ dbi_open_mutex' = NoThread
    /\ last' = [op |-> call, via |-> call, dirty |-> FALSE, h |-> Internal(t),
                err |-> result.err.variant]

\* self.dbi_open_mutex.lock() by a thread that enters the call.
DbiLock(t, waiting, locked) ==
    /\ Ready(t)
    /\ IF dbi_open_mutex = NoThread
       THEN /\ dbi_open_mutex' = t
            /\ pc' = [pc EXCEPT ![t] = locked]
       ELSE /\ pc' = [pc EXCEPT ![t] = waiting]
            /\ UNCHANGED <<dbi_open_mutex, env, conv>>
    /\ last' = NoLast
    /\ UNCHANGED <<store, dstore, txn, wmutex, wrapper, crashed, expect, snap, exp>>
    /\ UNCHANGED <<cursor, held, env, conv>>

\* lock() returns to a thread that waited in it.
DbiLocked(t, waiting, locked) ==
    /\ pc[t] = waiting
    /\ ~crashed
    /\ dbi_open_mutex = NoThread
    /\ dbi_open_mutex' = t
    /\ pc' = [pc EXCEPT ![t] = locked]
    /\ last' = NoLast
    /\ UNCHANGED <<store, dstore, txn, wmutex, wrapper, crashed, expect, snap, exp>>
    /\ UNCHANGED <<cursor, held, env, conv>>

\* try!(self.begin_ro_txn()) or try!(self.begin_rw_txn()): mdb_txn_begin returns
\* once it does not wait for the write mutex.
DbiBegin(t, flags, call, at, next) ==
    /\ pc[t] = at
    /\ ~crashed
    /\ ~mdb_txn_begin_waits(NULL, flags)
    /\ \E rc \in mdb_txn_begin_rcs(t, NULL, flags) :
         IF lmdb_result(rc).ok
         THEN /\ txn' = [txn EXCEPT ![Internal(t)] = mdb_txn_begin_txn(NULL, flags)]
              /\ wmutex' = mdb_txn_begin_mutex(Internal(t), NULL, flags)
              /\ pc' = [pc EXCEPT ![t] = next]
              /\ last' = NoLast
              /\ UNCHANGED <<dbi_open_mutex, env, conv>>
         ELSE /\ DbiReturns(t, call, lmdb_result(rc))
              /\ UNCHANGED <<txn, wmutex>>
    /\ UNCHANGED <<store, dstore, wrapper, crashed, expect, snap, exp>>
    /\ UNCHANGED <<cursor, held, env, conv>>

\* try!(txn.open_db(name)) or try!(txn.create_db(name, flags)): on Err the
\* transaction is dropped.  Both call Database::new(self.txn(), name, flags),
\* which passes name and flags to mdb_dbi_open.
DbiOpen(t, name, flags, call, at, next) ==
    /\ pc[t] = at
    /\ ~crashed
    /\ \E rc \in mdb_dbi_open_rcs(Internal(t), name, flags) :
         IF lmdb_result(rc).ok
         THEN /\ txn' = [txn EXCEPT ![Internal(t)].named =
                                      mdb_dbi_open_named(Internal(t), name, flags)]
              /\ pc' = [pc EXCEPT ![t] = next]
              \* Ghost: the name that was looked up.
              /\ last' = [op |-> "dbi_open", via |-> name, dirty |-> FALSE,
                          h |-> Internal(t), err |-> "none"]
              /\ UNCHANGED <<wmutex, dbi_open_mutex, env, conv>>
         ELSE /\ txn' = mdb_txn_abort_txn(Internal(t))
              /\ wmutex' = mdb_txn_end_mutex(Internal(t))
              /\ DbiReturns(t, call, lmdb_result(rc))
    /\ UNCHANGED <<store, dstore, wrapper, crashed, expect, snap, exp>>
    /\ UNCHANGED <<cursor, held, env, conv>>

\* try!(txn.commit())
DbiCommit(t, call, at, next) ==
    /\ pc[t] = at
    /\ ~crashed
    /\ \E rc \in mdb_txn_commit_rcs(Internal(t)) :
         /\ txn' = mdb_txn_commit_txn(Internal(t), rc)
         /\ store' = mdb_txn_commit_store(Internal(t), rc)
         /\ dstore' = mdb_txn_commit_dstore(Internal(t), rc)
         /\ wmutex' = mdb_txn_end_mutex(Internal(t))
         /\ IF lmdb_result(rc).ok
            THEN /\ pc' = [pc EXCEPT ![t] = next]
                 /\ last' = NoLast
                 /\ UNCHANGED <<dbi_open_mutex, env, conv>>
            ELSE DbiReturns(t, call, lmdb_result(rc))
    /\ UNCHANGED <<wrapper, crashed, expect, snap, exp>>
    /\ UNCHANGED <<cursor, held, env, conv>>

\* drop(mutex); Ok(db)
DbiUnlock(t, call, at) ==
    /\ pc[t] = at
    /\ ~crashed
    /\ DbiReturns(t, call, Ok(Unit))
    /\ UNCHANGED <<store, dstore, txn, wmutex, wrapper, crashed, expect, snap, exp>>
    /\ UNCHANGED <<cursor, held, env, conv>>

\* An open_db that does not take dbi_open_mutex.
open_db_lock_free(t) ==
    /\ Ready(t)
    /\ pc' = [pc EXCEPT ![t] = "open_db:begin"]
    /\ last' = NoLast
    /\ UNCHANGED <<store, dstore, txn, wmutex, wrapper, crashed, expect, snap, exp>>
    /\ UNCHANGED <<cursor, held, dbi_open_mutex, env, conv>>

open_db_lock(t) == DbiLock(t, "open_db:lock", "open_db:begin")
open_db_locked(t) == DbiLocked(t, "open_db:lock", "open_db:begin")
open_db_begin(t) == DbiBegin(t, MDB_RDONLY, "open_db", "open_db:begin", "open_db:open")
open_db_open(t) ==
    \E name \in Names :
       DbiOpen(t, name, NoFlags, "open_db", "open_db:open", "open_db:commit")
open_db_commit(t) == DbiCommit(t, "open_db", "open_db:commit", "open_db:drop")
open_db_drop(t) == DbiUnlock(t, "open_db", "open_db:drop")

Environment_open_db(t) ==
    \/ open_db_lock(t)
    \/ open_db_locked(t)
    \/ open_db_begin(t)
    \/ open_db_open(t)
    \/ open_db_commit(t)
    \/ open_db_drop(t)

create_db_lock(t) == DbiLock(t, "create_db:lock", "create_db:begin")
create_db_locked(t) == DbiLocked(t, "create_db:lock", "create_db:begin")
create_db_begin(t) == DbiBegin(t, NoFlags, "create_db", "create_db:begin", "create_db:create")
create_db_create(t) ==
    \E name \in Names, flags \in DbFlagSets :
       DbiOpen(t, name, flags + MDB_CREATE, "create_db", "create_db:create",
               "create_db:commit")
create_db_commit(t) == DbiCommit(t, "create_db", "create_db:commit", "create_db:drop")
create_db_drop(t) == DbiUnlock(t, "create_db", "create_db:drop")

Environment_create_db(t) ==
    \/ create_db_lock(t)
    \/ create_db_locked(t)
    \/ create_db_begin(t)
    \/ create_db_create(t)
    \/ create_db_commit(t)
    \/ create_db_drop(t)

(***************************************************************************)
(* environment.rs: opening, syncing and dropping the environment.          *)
(***************************************************************************)
\* The options of an EnvironmentBuilder in the order open applies them, and
\* the engine call that applies each.
BuilderOptions == <<"max_readers", "max_dbs", "map_size">>

mdb_env_set(option) ==
    CASE option = "max_readers" -> "mdb_env_set_maxreaders"
      [] option = "max_dbs" -> "mdb_env_set_maxdbs"
      [] option = "map_size" -> "mdb_env_set_mapsize"

\* The engine calls of open, and the statuses each can return.
EnvCalls == {"mdb_env_create", "mdb_env_set_maxreaders", "mdb_env_set_maxdbs",
             "mdb_env_set_mapsize", "mdb_env_open"}

mdb_env_rcs(call) ==
    CASE call = "mdb_env_create" -> {MDB_SUCCESS, ENOMEM}
      [] call = "mdb_env_open" -> {MDB_SUCCESS, MDB_VERSION_MISMATCH}
      [] OTHER -> {MDB_SUCCESS, EINVAL}

\* lmdb_try_with_cleanup!(call, mdb_env_close(env)) for the calls todo, in
\* order, after the calls done: the calls made and the result of open so far.
RECURSIVE open_steps(_, _, _)
open_steps(done, todo, rc) ==
    IF todo = <<>> THEN [calls |-> done, result |-> Ok(Unit)]
    ELSE IF rc[Head(todo)] = MDB_SUCCESS
    THEN open_steps(Append(done, Head(todo)), Tail(todo), rc)
    ELSE [calls |-> done \o <<Head(todo), "mdb_env_close">>,
          result |-> Err(from_err_code(rc[Head(todo)]))]

\* A cleanup that never runs.
EnvironmentBuilder_open_leaky(config, rc) ==
    IF rc["mdb_env_create"] # MDB_SUCCESS
    THEN [calls |-> <<"mdb_env_create">>,
          result |-> Err(from_err_code(rc["mdb_env_create"]))]
    ELSE LET set == SelectSeq(BuilderOptions, LAMBDA o : o \in config)
             r == open_steps(<<"mdb_env_create">>,
                             [i \in 1 .. Len(set) |-> mdb_env_set(set[i])]
                                 \o <<"mdb_env_open">>, rc)
         IN [r EXCEPT !.calls = SelectSeq(@, LAMBDA c : c # "mdb_env_close")]

\* EnvironmentBuilder::open(&self, path, mode) for a builder with the options
\* config set, the engine answering call c with rc[c].
EnvironmentBuilder_open_run(config, rc) ==
    IF rc["mdb_env_create"] # MDB_SUCCESS
    \* lmdb_try!: no environment was created, there is none to close.
    THEN [calls |-> <<"mdb_env_create">>,
          result |-> Err(from_err_code(rc["mdb_env_create"]))]
    ELSE LET set == SelectSeq(BuilderOptions, LAMBDA o : o \in config)
         IN open_steps(<<"mdb_env_create">>,
                       [i \in 1 .. Len(set) |-> mdb_env_set(set[i])]
                           \o <<"mdb_env_open">>, rc)

EnvironmentBuilder_open(config, flags) ==
    /\ ~env.value
    /\ \E rc \in [EnvCalls -> UNION {mdb_env_rcs(c) : c \in EnvCalls}] :
         /\ \A c \in EnvCalls : rc[c] \in mdb_env_rcs(c)
         /\ LET r == EnvironmentBuilder_open_run(config, rc) IN
            /\ env' = [value |-> r.result.ok,
                       rdonly |-> r.result.ok /\ RdOnlyBit(flags),
                       config |-> config, calls |-> r.calls]
            /\ last' = Returned("open", NULL, None, r.result)
    /\ UNCHANGED <<store, dstore, txn, wmutex, wrapper, pc, crashed, expect, snap, exp>>
    /\ UNCHANGED <<cursor, held, dbi_open_mutex, conv>>

\* Every transaction borrows the Environment for 'env: it is dropped when no
\* transaction value is left.
Environment_drop ==
    /\ env.value
    /\ \A h \in Handles : wrapper[h].type = "none"
    /\ \A t \in Threads : pc[t] = "ready"
    /\ env' = [env EXCEPT !.value = FALSE, !.rdonly = FALSE,
                          !.calls = Append(@, "mdb_env_close")]
    /\ last' = NoLast
    /\ UNCHANGED <<store, dstore, txn, wmutex, wrapper, pc, crashed, expect, snap, exp>>
    /\ UNCHANGED <<cursor, held, dbi_open_mutex, conv>>

\* An engine that flushes a read-only environment as well.
mdb_env_sync_rcs_flushes(force) == {MDB_SUCCESS, EIO}

\* mdb_env_sync(env, force): a read-only environment has nothing to flush and
\* refuses; the flush itself can fail.
mdb_env_sync_rcs(force) == IF env.rdonly THEN {EACCES} ELSE {MDB_SUCCESS, EIO}

\* Environment::sync(&self, force)
Environment_sync(force) ==
    /\ env.value
    /\ \E t \in Threads : Ready(t)
    /\ \E rc \in mdb_env_sync_rcs(force) :
         last' = Returned("sync", NULL, IF force THEN "force" ELSE "lazy",
                          lmdb_result(rc))
    /\ UNCHANGED <<store, dstore, txn, wmutex, wrapper, pc, crashed, expect, snap, exp>>
    /\ UNCHANGED <<cursor, held, dbi_open_mutex, env, conv>>

(***************************************************************************)
(* The specification.                                                      *)
(***************************************************************************)
Init ==
    /\ store = EmptyView
    /\ dstore = NoDb
    /\ txn = [h \in AllHandles |-> FreeTxn]
    /\ wmutex = NULL
    /\ wrapper = [h \in Handles |-> NoWrapper]
    /\ pc = [t \in Threads |-> "ready"]
    /\ crashed = FALSE
    /\ expect = EmptyView
    /\ snap = [h \in Handles |-> EmptyView]
    /\ exp = [h \in Handles |-> EmptyView]
    /\ last = NoLast
    /\ cursor = [c \in Cursors |-> NoCursor]
    /\ held = [h \in Handles |-> NoView]
    /\ dbi_open_mutex = NoThread
    /\ env = OpenEnv
    /\ conv = NoConv

WriteFlagSets == {NoFlags, MDB_NOOVERWRITE}

Next ==
    \/ \E t \in Threads : begin_ro_txn(t)
    \/ \E t \in Threads : begin_rw_txn(t)
    \/ \E t \in Threads : mdb_txn_begin_returns(t)
    \/ \E h \in Handles : begin_nested_txn(h)
    \/ \E h \in Handles, kv \in Writes, f \in WriteFlagSets :
          RwTransaction_put(h, kv[1], kv[2], f)
    \/ \E h \in Handles, k \in Keys : RwTransaction_del(h, k)
    \/ \E h \in Handles : RwTransaction_clear_db(h)
    \/ \E h \in Handles : TransactionExt_commit(h)
    \/ \E h \in Handles : TransactionExt_abort(h)
    \/ \E h \in Handles : RoTransaction_reset(h)
    \/ \E h \in Handles : InactiveTransaction_renew(h)
    \/ \E h \in Handles : InactiveTransaction_drop(h)
    \/ \E h \in Handles : NullChild_end(h)
    \/ \E h \in Handles : NullChild_use(h)

Spec == Init /\ [][Next]_vars

\* The engine's write mutex hands over to a thread that waits for it.
LiveSpec == Spec /\ \A t \in Threads : SF_vars(mdb_txn_begin_returns(t))

\* Transactions with cursors and views.
CursorOps == {"MDB_FIRST", "MDB_NEXT", "MDB_SET"}

\* Cursors and views stay with the thread of their transaction (NoSend, NoSync):
\* one thread runs them.
CursorThreads == {"t1"}
CursorHandles == {h \in Handles : ThreadOf(h) \in CursorThreads}

CursorNext ==
    \/ \E t \in CursorThreads : begin_ro_txn(t)
    \/ \E t \in CursorThreads : begin_rw_txn(t)
    \/ \E h \in CursorHandles : RwTransaction_put(h, "k1", "v1", NoFlags)
    \/ \E h \in CursorHandles : TransactionExt_commit(h)
    \/ \E h \in CursorHandles : TransactionExt_abort(h)
    \/ \E h \in CursorHandles : RoTransaction_reset(h)
    \/ \E h \in CursorHandles : InactiveTransaction_renew(h)
    \/ \E h \in CursorHandles : InactiveTransaction_drop(h)
    \/ \E h \in CursorHandles : TransactionExt_get_call(h, "k1")
    \/ \E h \in CursorHandles : View_drop(h)
    \/ \E h \in CursorHandles : open_ro_cursor(h, MAIN)
    \/ \E h \in CursorHandles : RwCursor_new(h)
    \/ \E h \in CursorHandles : open_rw_cursor(h)
    \/ \E h \in CursorHandles : Items_new(h)
    \/ \E c \in Cursors, op \in CursorOps : ReadCursor_get(c, op, "k1", None, FALSE)
    \/ \E c \in Cursors : WriteCursor_put(c, "k2", "v1", NoFlags)
    \/ \E c \in Cursors : WriteCursor_del(c)
    \/ \E c \in Cursors : RoCursor_drop(c)
    \/ \E c \in Cursors : RwCursor_drop(c)
    \/ \E c \in Cursors : Items_next(c)
    \/ \E c \in Cursors : Items_drop(c)

CursorSpec == Init /\ [][CursorNext]_vars

\* Transactions with open_db and create_db.
DbiNext ==
    \/ \E t \in Threads : begin_ro_txn(t)
    \/ \E t \in Threads : begin_rw_txn(t)
    \/ \E t \in Threads : mdb_txn_begin_returns(t)
    \/ \E h \in Handles : RwTransaction_put(h, "k1", "v1", NoFlags)
    \/ \E h \in Handles : TransactionExt_commit(h)
    \/ \E h \in Handles : TransactionExt_abort(h)
    \/ \E t \in Threads : Environment_open_db(t)
    \/ \E t \in Threads : Environment_create_db(t)
    \/ \E h \in Handles : RwTransaction_drop_db(h)

DbiSpec == Init /\ [][DbiNext]_vars

\* Transactions with reserve.  Key k1 is written through reserve only.
ReserveNext ==
    \/ \E t \in CursorThreads : begin_rw_txn(t)
    \/ \E h \in CursorHandles : begin_nested_txn(h)
    \/ \E h \in CursorHandles : RwTransaction_put(h, "k2", "v1", NoFlags)
    \/ \E h \in CursorHandles, k \in Keys, len \in Lens, f \in WriteFlagSets :
          RwTransaction_reserve(h, k, len, f)
    \/ \E h \in CursorHandles, v \in Vals : BufWriter_write(h, v)
    \/ \E h \in CursorHandles : View_drop(h)
    \/ \E h \in CursorHandles, k \in Keys : TransactionExt_get_call(h, k)
    \/ \E h \in CursorHandles : TransactionExt_commit(h)
    \/ \E h \in CursorHandles : RwTransaction_drop(h)
    \/ \E h \in CursorHandles : NullChild_end(h)

ReserveSpec == Init /\ [][ReserveNext]_vars

\* Transactions on the named database, with one cursor.  One thread calls
\* create_db: it never waits for dbi_open_mutex.
DWrites == ({"k1"} \X DVals) \cup {<<"k2", "v1">>, <<"k3", "v2">>}

NavOps ==
    {"MDB_FIRST", "MDB_FIRST_DUP", "MDB_GET_BOTH", "MDB_GET_BOTH_RANGE",
     "MDB_GET_CURRENT", "MDB_GET_MULTIPLE", "MDB_LAST", "MDB_LAST_DUP", "MDB_NEXT",
     "MDB_NEXT_DUP", "MDB_NEXT_MULTIPLE", "MDB_NEXT_NODUP", "MDB_PREV",
     "MDB_PREV_DUP", "MDB_PREV_NODUP", "MDB_SET", "MDB_SET_KEY", "MDB_SET_RANGE"}

\* The key, the data and the place of the key slice that get is called with.
NavArgs(op) ==
    IF op \in {"MDB_SET", "MDB_SET_KEY", "MDB_SET_RANGE"}
    THEN DKeys \X {None} \X BOOLEAN
    ELSE IF op \in {"MDB_GET_BOTH", "MDB_GET_BOTH_RANGE"}
    THEN DKeys \X DVals \X {FALSE}
    ELSE {<<None, None, FALSE>>} \cup (DKeys \X {None} \X {TRUE})

NavNext ==
    \/ \E t \in CursorThreads : create_db_lock(t)
    \/ \E t \in CursorThreads : create_db_begin(t)
    \/ \E t \in CursorThreads : create_db_create(t)
    \/ \E t \in CursorThreads : create_db_commit(t)
    \/ \E t \in CursorThreads : create_db_drop(t)
    \/ \E t \in CursorThreads : begin_rw_txn(t)
    \/ \E h \in CursorHandles, kv \in DWrites, f \in WriteFlagSets :
          RwTransaction_put_named(h, kv[1], kv[2], f)
    \/ \E h \in CursorHandles :
          (\A c \in Cursors : cursor[c] = NoCursor) /\ open_ro_cursor(h, NAMED)
    \/ \E c \in Cursors, op \in NavOps : \E a \in NavArgs(op) :
          ReadCursor_get(c, op, a[1], a[2], a[3])
    \/ \E c \in Cursors : RoCursor_drop(c)
    \/ \E h \in CursorHandles : View_drop(h)
    \/ \E h \in CursorHandles : RwTransaction_drop(h)

NavSpec == Init /\ [][NavNext]_vars

\* Items and cursors over the default database in the transactions of one
\* thread.
ItemsOps == {"MDB_FIRST", "MDB_NEXT", "MDB_GET_CURRENT", "MDB_SET", "MDB_GET_BOTH"}

ItemsNext ==
    \/ \E t \in CursorThreads : begin_ro_txn(t)
    \/ \E t \in CursorThreads : begin_rw_txn(t)
    \/ \E h \in CursorHandles, kv \in Writes : RwTransaction_put(h, kv[1], kv[2], NoFlags)
    \/ \E h \in CursorHandles : TransactionExt_commit(h)
    \/ \E h \in CursorHandles : TransactionExt_abort(h)
    \/ \E h \in CursorHandles : Items_new(h)
    \/ \E c \in Cursors : Items_next(c)
    \/ \E c \in Cursors : Items_drop(c)
    \/ \E h \in CursorHandles : open_ro_cursor(h, MAIN)
    \/ \E c \in Cursors, op \in ItemsOps, k \in {None, "k1"} :
          ReadCursor_get(c, op, k, None, FALSE)
    \/ \E c \in Cursors : RoCursor_drop(c)
    \/ \E h \in CursorHandles : View_drop(h)

ItemsSpec == Init /\ [][ItemsNext]_vars

\* The conversions of error.rs, on every code of Codes.
ErrNext ==
    \/ \E c \in Codes : LmdbError_from_err_code(c)
    \/ LmdbError_to_err_code

ErrSpec == Init /\ [][ErrNext]_vars

\* The environment is dropped and opened again, read-only or not, with any
\* options, between the transactions of the threads.
EnvOptionSets == SUBSET {"max_readers", "max_dbs", "map_size"}

EnvNext ==
    \/ \E config \in EnvOptionSets, flags \in {NoFlags, MDB_RDONLY} :
          EnvironmentBuilder_open(config, flags)
    \/ Environment_drop
    \/ \E force \in BOOLEAN : Environment_sync(force)
    \/ \E t \in Threads : begin_ro_txn(t)
    \/ \E t \in Threads : begin_rw_txn(t)
    \/ \E t \in Threads : mdb_txn_begin_returns(t)
    \/ \E t \in Threads, kv \in Writes : RwTransaction_put(Top(t), kv[1], kv[2], NoFlags)
    \/ \E t \in Threads : TransactionExt_commit(Top(t))
    \/ \E t \in Threads : TransactionExt_abort(Top(t))
    \/ \E t \in Threads : RoTransaction_reset(Top(t))
    \/ \E t \in Threads : InactiveTransaction_renew(Top(t))
    \/ \E t \in Threads : InactiveTransaction_drop(Top(t))

EnvSpec == Init /\ [][EnvNext]_vars

\* Every fallible operation, called by one thread on the environment of the
\* tests.
ResultNext ==
    \/ \E t \in CursorThreads : begin_ro_txn(t)
    \/ \E t \in CursorThreads : begin_rw_txn(t)
    \/ \E h \in CursorHandles, f \in WriteFlagSets : RwTransaction_put(h, "k1", "v1", f)
    \/ \E h \in CursorHandles, k \in Keys : RwTransaction_del(h, k)
    \/ \E h \in CursorHandles, f \in WriteFlagSets : RwTransaction_reserve(h, "k2", 1, f)
    \/ \E h \in CursorHandles, k \in Keys : TransactionExt_get_call(h, k)
    \/ \E h \in CursorHandles : View_drop(h)
    \/ \E h \in CursorHandles : TransactionExt_commit(h)
    \/ \E h \in CursorHandles : TransactionExt_abort(h)
    \/ \E h \in CursorHandles : RoTransaction_reset(h)
    \/ \E h \in CursorHandles : InactiveTransaction_renew(h)
    \/ \E h \in CursorHandles : InactiveTransaction_drop(h)
    \/ \E h \in CursorHandles : open_rw_cursor(h)
    \/ \E c \in Cursors, op \in {"MDB_FIRST", "MDB_SET"} :
          ReadCursor_get(c, op, "k1", None, FALSE)
    \/ \E c \in Cursors, f \in WriteFlagSets : WriteCursor_put(c, "k1", "v2", f)
    \/ \E c \in Cursors : WriteCursor_del(c)
    \/ \E c \in Cursors : RwCursor_drop(c)
    \/ \E t \in CursorThreads : open_db_lock(t)
    \/ \E t \in CursorThreads : open_db_begin(t)
    \/ \E t \in CursorThreads : open_db_open(t)
    \/ \E t \in CursorThreads : open_db_commit(t)
    \/ \E t \in CursorThreads : open_db_drop(t)
    \/ \E t \in CursorThreads : create_db_lock(t)
    \/ \E t \in CursorThreads : create_db_begin(t)
    \/ \E t \in CursorThreads : create_db_create(t)
    \/ \E t \in CursorThreads : create_db_commit(t)
    \/ \E t \in CursorThreads : create_db_drop(t)
    \/ \E force \in BOOLEAN : Environment_sync(force)

ResultSpec == Init /\ [][ResultNext]_vars

\* Two threads that begin write transactions, end them, and call open_db and
\* create_db, with or without a write transaction of their own.
LockNext ==
    \/ \E t \in Threads : begin_rw_txn(t)
    \/ \E t \in Threads : mdb_txn_begin_returns(t)
    \/ \E t \in Threads : TransactionExt_commit(Top(t))
    \/ \E t \in Threads : RwTransaction_drop(Top(t))
    \/ \E t \in Threads : Environment_open_db(t)
    \/ \E t \in Threads : Environment_create_db(t)

LockSpec == Init /\ [][LockNext]_vars

(***************************************************************************)
(* Properties.                                                             *)
(***************************************************************************)
\* The result get announces for a key whose contents are x.
Announced(x) == IF x = Absent THEN Err(from_err_code(MDB_NOTFOUND)) ELSE Ok(x)

\* What get returns for k in a transaction begun in this state.
BegunNowGet(k) == Announced(mdb_txn_begin_txn(NULL, MDB_RDONLY).view[k])

\* The value in slot h is a running transaction on the engine handle h.
Live(h) ==
    /\ wrapper[h].type \in {"RoTransaction", "RwTransaction"}
    /\ wrapper[h].handle = h

\* This step is the call op, and it consumes the read-write transaction h.
Ends(h, op) ==
    /\ wrapper[h].type = "RwTransaction"
    /\ wrapper[h].handle = h
    /\ wrapper'[h].type = "none"
    /\ last'.op = op

\* The top-level read-write transactions that have begun and not ended.
TopWriters ==
    {h \in Handles : wrapper[h].type = "RwTransaction" /\ wrapper[h].via = "begin_rw_txn"}

\* C1, for top-level transactions: a top-level transaction that has not changed key k itself
\* gets exactly the value v that the last successfully committed top-level
\* write to k before its begin had put.
C1_RoundTrip ==
    \A t \in Threads, k \in Keys :
        (/\ Live(Top(t))
         /\ snap[Top(t)][k] \in Vals
         /\ exp[Top(t)][k] = snap[Top(t)][k])
        => TransactionExt_get(Top(t), k) = Ok(snap[Top(t)][k])

C1_Witness ==
    \E t \in Threads :
        /\ wrapper[Top(t)].type = "RoTransaction"
        /\ TransactionExt_get(Top(t), "k1") = Ok("v2")
        /\ TransactionExt_get(Top(t), "k2") = Ok("v1")
        /\ store["k1"] # "v2"

\* C1 as stated, for every read-write transaction, a nested one included: once
\* commit has returned Ok to a transaction whose last write to k was put(k, v),
\* a transaction begun now gets v for k.
C1_AnyRwTransaction ==
    [][\A h \in Handles, k \in Keys :
          (Ends(h, "commit_ok") /\ exp[h][k] \in Vals /\ exp[h][k] # Base(h)[k])
          => BegunNowGet(k)' = Ok(exp[h][k])]_vars

\* C2: at most one top-level read-write transaction is running, and a
\* begin_rw_txn call that waits returns only once none is.
C2_SingleWriter ==
    [][/\ Cardinality(TopWriters') <= 1
       /\ \A t \in Threads :
            (pc[t] = "begin_rw_txn" /\ pc'[t] = "ready") => TopWriters = {}]_vars

C2_Witness ==
    \E t \in Threads, h \in TopWriters :
        /\ pc[t] = "begin_rw_txn"
        /\ ThreadOf(h) # t
        /\ Dirty(h)

\* C3: what a read-only transaction gets for a key is the value the key had in
\* the committed contents when the transaction began or was renewed, and no step
\* that leaves the transaction running changes it.
C3_SnapshotIsolation ==
    [][\A h \in Handles, k \in Keys :
          (wrapper'[h].type = "RoTransaction" /\ wrapper'[h].handle = h)
          => /\ TransactionExt_get(h, k)' = Announced(snap'[h][k])
             /\ wrapper[h].type = "RoTransaction"
                => TransactionExt_get(h, k)' = TransactionExt_get(h, k)]_vars

C3_Witness ==
    \E h \in Handles, g \in TopWriters, k \in Keys :
        /\ wrapper[h].type = "RoTransaction"
        /\ TransactionExt_get(h, k) # BegunNowGet(k)
        /\ exp[g][k] # store[k]
        /\ exp[g][k] # snap[h][k]

\* C4: no thread waits inside begin_ro_txn; the write mutex, the one thing a
\* call waits for, is never held by a read-only transaction; and a thread that
\* waits inside begin_rw_txn can return as soon as no top-level read-write
\* transaction is running, whatever readers are open.
C4_ReadersNeverBlock ==
    /\ wmutex # NULL => ~txn[wmutex].rdonly /\ txn[wmutex].parent = NULL
    /\ \A t \in Threads :
          /\ pc[t] # "begin_ro_txn"
          /\ (pc[t] = "begin_rw_txn" /\ TopWriters = {} /\ ~crashed)
             => ENABLED mdb_txn_begin_returns(t)

C4_Witness ==
    \E h \in Handles, g \in TopWriters :
        /\ wrapper[h].type = "RoTransaction"
        /\ Ready(ThreadOf(h))
        /\ Usable(g, "RwTransaction")
        /\ Dirty(g)
        /\ snap[h] = store
        /\ snap[h] # EmptyView

C6_AbortDiscards ==
    [][\A h \in Handles :
          Ends(h, "abort")
          => /\ store' = store
             /\ \A k \in Keys : BegunNowGet(k)' = Announced(snap[Top(ThreadOf(h))][k])
             /\ txn'[h].state = "free"
             /\ Depth(h) = 0 => wmutex' = NULL]_vars

C6_Witness ==
    /\ last.op = "abort"
    /\ last.via = "begin_rw_txn"
    /\ last.dirty
    /\ store # EmptyView

\* C7: when commit returns Err to a read-write transaction, a transaction begun
\* afterwards gets for every key what the committed contents held before the
\* failed transaction began.
C7_FailedCommitNoOp ==
    [][\A h \in Handles, k \in Keys :
          Ends(h, "commit_err")
          => BegunNowGet(k)' = Announced(snap[Top(ThreadOf(h))][k])]_vars

C7_Witness ==
    /\ last.op = "commit_err"
    /\ last.via = "begin_rw_txn"
    /\ last.dirty
    /\ store # EmptyView

\* C8: after a child transaction is aborted or dropped, its parent gets for
\* every key what it got before the child began: none of the child's writes, all
\* of its own.
C8_NestedAbort ==
    [][\A h \in Handles, k \in Keys :
          (Ends(h, "abort") /\ wrapper[h].via = "begin_nested_txn")
          => TransactionExt_get(Parent(h), k)' = Announced(exp[Parent(h)][k])]_vars

C8_Witness ==
    /\ last.op = "abort"
    /\ last.via = "begin_nested_txn"
    /\ last.dirty
    /\ Usable(Parent(last.h), "RwTransaction")
    /\ Dirty(Parent(last.h))

\* C9: when commit returns Ok to a child transaction, its parent gets the
\* child's contents, the committed contents and what every read-only
\* transaction gets stay as they were; the committed contents change only in a
\* step where commit returns Ok to a top-level read-write transaction.
C9_NestedCommit ==
    [][/\ \A h \in Handles, k \in Keys :
            (Ends(h, "commit_ok") /\ wrapper[h].via = "begin_nested_txn")
            => /\ TransactionExt_get(Parent(h), k)' = Announced(exp[h][k])
               /\ BegunNowGet(k)' = BegunNowGet(k)
               /\ \A g \in Handles :
                    wrapper[g].type = "RoTransaction"
                    => TransactionExt_get(g, k)' = TransactionExt_get(g, k)
       /\ store' # store
          => \E h \in Handles : Ends(h, "commit_ok") /\ wrapper[h].via = "begin_rw_txn"]_vars

C9_Witness ==
    /\ last.op = "commit_ok"
    /\ last.via = "begin_nested_txn"
    /\ last.dirty
    /\ \E k \in Keys :
          /\ TransactionExt_get(Parent(last.h), k) # BegunNowGet(k)
          /\ \E g \in Handles :
                /\ wrapper[g].type = "RoTransaction"
                /\ TransactionExt_get(g, k) # TransactionExt_get(Parent(last.h), k)

\* C10: a running child transaction gets, for every key, its own last write to
\* the key, or else what its parent held for the key when the child began.
C10_NestedVisibility ==
    \A h \in Handles, k \in Keys :
        (/\ wrapper[h].type = "RwTransaction"
         /\ wrapper[h].via = "begin_nested_txn"
         /\ wrapper[h].handle = h)
        => TransactionExt_get(h, k) = Announced(exp[h][k])

C10_Witness ==
    \E h \in Handles :
        /\ wrapper[h].type = "RwTransaction"
        /\ wrapper[h].via = "begin_nested_txn"
        /\ wrapper[h].handle = h
        /\ exp[h]["k1"] # exp[Parent(h)]["k1"]
        /\ TransactionExt_get(h, "k1") = Ok("v2")
        /\ exp[Parent(h)]["k2"] # store["k2"]
        /\ TransactionExt_get(h, "k2") = Ok("v1")

\* The value begin_nested_txn(p) returned is alive.
ChildLive(p) == Depth(p) < MaxDepth /\ wrapper[Child(p)].type # "none"

\* The engine transactions running below p.
ChildrenOf(p) == {c \in Handles : txn[c].state = "active" /\ txn[c].parent = p}

C12_NestedBeginReportsFailure ==
    \A h \in Handles : wrapper[h].type # "none" => wrapper[h].handle # NULL

\* The transaction a cursor works on: the one it was opened in.
CursorTxnActive(c) == ~cursor[c].ended /\ txn[cursor[c].txn].state = "active"

\* A call that reads or writes through the transaction value in slot h can be made.
CanOperate(h) ==
    \/ \E k \in Keys : ENABLED TransactionExt_get_call(h, k)
    \/ \E kv \in Writes, f \in WriteFlagSets : ENABLED RwTransaction_put(h, kv[1], kv[2], f)
    \/ \E k \in Keys : ENABLED RwTransaction_del(h, k)
    \/ ENABLED RwTransaction_clear_db(h)
    \/ ENABLED open_ro_cursor(h, MAIN)
    \/ ENABLED open_rw_cursor(h)
    \/ ENABLED RwCursor_new(h)
    \/ ENABLED Items_new(h)
    \/ ENABLED begin_nested_txn(h)
    \/ ENABLED TransactionExt_commit(h)
    \/ ENABLED TransactionExt_abort(h)
    \/ ENABLED RoTransaction_reset(h)

\* A call on the cursor value in slot c can be made.
CanOperateCursor(c) ==
    \/ \E op \in CursorOps, k \in Keys : ENABLED ReadCursor_get(c, op, k, None, FALSE)
    \/ \E kv \in Writes : ENABLED WriteCursor_put(c, kv[1], kv[2], NoFlags)
    \/ ENABLED WriteCursor_del(c)
    \/ ENABLED Items_next(c)

\* C13: an engine transaction is running, reset or ended; it leaves running
\* only by commit, abort or drop (ended) or, read-only, by reset; it leaves
\* reset only by renew (running) or drop (ended); transaction and cursor calls
\* can be made only on a running transaction, and on a reset one only renew and
\* drop.
C13_StateMachine ==
    [][/\ \A h \in Handles :
            /\ CanOperate(h) => txn[h].state = "active"
            /\ (ENABLED InactiveTransaction_renew(h) \/ ENABLED InactiveTransaction_drop(h))
               => txn[h].state = "reset"
            /\ txn[h].state = "reset" => txn[h].rdonly
            /\ (txn[h].state = "active" /\ txn'[h].state # "active")
               => \/ /\ txn'[h].state = "free"
                     /\ last'.op \in {"commit_ok", "commit_err", "abort"}
                     /\ last'.h = h
                  \/ /\ txn'[h].state = "reset"
                     /\ wrapper[h].type = "RoTransaction"
                     /\ wrapper'[h].type = "InactiveTransaction"
            /\ (txn[h].state = "reset" /\ txn'[h].state # "reset")
               => \/ /\ txn'[h].state = "active"
                     /\ wrapper'[h].type = "RoTransaction"
                  \/ /\ txn'[h].state = "free"
                     /\ last'.op = "abort"
                     /\ last'.h = h
            /\ (txn[h].state \notin {"active", "reset"} /\ txn'[h].state # txn[h].state)
               => txn'[h].state \in {"waiting", "active", "free"}
       /\ \A c \in Cursors : CanOperateCursor(c) => CursorTxnActive(c)]_vars

\* C14: the step in which renew returns Ok to an InactiveTransaction leaves a
\* usable RoTransaction on the same engine handle, running, whose get returns
\* for every key what the last committed write before the renew had put,
\* whatever the transaction read before its reset.
C14_ResetRenew ==
    [][\A h \in Handles :
          (wrapper[h].type = "InactiveTransaction" /\ wrapper'[h].type = "RoTransaction")
          => /\ wrapper[h].handle = h
             /\ wrapper'[h].handle = h
             /\ txn[h].state = "reset"
             /\ txn'[h].state = "active"
             /\ Usable(h, "RoTransaction")'
             /\ \A k \in Keys :
                   /\ TransactionExt_get(h, k)' = Announced(expect[k])
                   /\ TransactionExt_get(h, k)' = BegunNowGet(k)]_vars

C14_Witness ==
    /\ last.op = "renewed"
    /\ last.dirty
    /\ wrapper[last.h].type = "RoTransaction"
    /\ \E k \in Keys :
          /\ snap[last.h][k] = "v2"
          /\ TransactionExt_get(last.h, k) = Ok("v2")

\* The statements of open_db and create_db at which the local txn is alive.
DbiTxnStages == {"open_db:open", "open_db:commit", "create_db:create", "create_db:commit"}

\* C15: every engine transaction that has begun and has not been committed or
\* aborted is owned by a value whose commit, abort or destructor will end it:
\* a transaction value of the caller, or the local txn of a running open_db or
\* create_db call.
C15_NoLeakedTxn ==
    \A h \in AllHandles :
        txn[h].state \in {"active", "reset"}
        => IF h \in Handles
           THEN wrapper[h].type # "none" /\ wrapper[h].handle = h
           ELSE pc[ThreadOf(h)] \in DbiTxnStages

\* C16: every engine cursor that is allocated belongs to a running transaction
\* and is owned by a cursor value, whose destructor will close it.
C16_NoLeakedCursor ==
    \A c \in Cursors :
        cursor[c].open => cursor[c].owner # "none" /\ ~cursor[c].ended

\* C17: every live cursor value, an Items included, is a cursor of a running
\* transaction, so a transaction with a live cursor has not been committed,
\* aborted, reset or dropped.
C17_CursorBounded ==
    \A c \in Cursors :
        cursor[c].owner # "none"
        => /\ ~cursor[c].ended
           /\ cursor[c].open
           /\ txn[cursor[c].txn].state = "active"
           /\ wrapper[cursor[c].txn].handle = cursor[c].txn

\* A call that writes to transaction h can be made.
CanMutate(h) ==
    \/ \E kv \in Writes, f \in WriteFlagSets : ENABLED RwTransaction_put(h, kv[1], kv[2], f)
    \/ \E k \in Keys : ENABLED RwTransaction_del(h, k)
    \/ ENABLED RwTransaction_clear_db(h)
    \/ \E c \in CursorsOf(h) :
          \/ \E kv \in Writes : ENABLED WriteCursor_put(c, kv[1], kv[2], NoFlags)
          \/ ENABLED WriteCursor_del(c)

\* C18: a view that is held is not stale, its transaction is running, and no
\* call that writes to its transaction can be made while it is held.
C18_ViewsNeverStale ==
    \A h \in Handles :
        held[h] # NoView
        => /\ ~held[h].stale
           /\ txn[h].state = "active"
           /\ ~CanMutate(h)

\* The threads whose open_db or create_db call has begun its transaction and
\* not yet committed or aborted it.
InsideDbiTxn == {t \in Threads : txn[Internal(t)].state = "active"}

\* C19: at most one thread is inside open_db or create_db with its transaction
\* begun and not finished, and that thread holds dbi_open_mutex; a step begins
\* such a transaction only with the mutex held, and a step that releases the
\* mutex leaves the transaction committed or aborted.
C19_OpenSerialized ==
    [][/\ Cardinality(InsideDbiTxn') <= 1
       /\ \A t \in Threads :
            /\ t \in InsideDbiTxn' => dbi_open_mutex' = t
            /\ (t \notin InsideDbiTxn /\ t \in InsideDbiTxn') => dbi_open_mutex = t
            /\ (dbi_open_mutex = t /\ dbi_open_mutex' # t)
               => /\ txn'[Internal(t)].state = "free"
                  /\ wmutex' # Internal(t)
                  /\ pc'[t] = "ready"]_vars

C19_Witness ==
    \E t, u \in Threads :
        /\ t # u
        /\ t \in InsideDbiTxn
        /\ pc[t] = "create_db:commit"
        /\ wmutex = Internal(t)
        /\ pc[u] = "open_db:lock"
        /\ wrapper[Top(u)].type = "RoTransaction"

\* C20: when open_db returns to a thread that has an ongoing transaction, it
\* returns Err(BadRslot), and the thread's transaction is as it was.
C20_OpenDbBadRslot ==
    [][\A t \in Threads :
          (/\ pc[t] # "ready"
           /\ pc'[t] = "ready"
           /\ last'.op = "open_db"
           /\ wrapper[Top(t)].type \in {"RoTransaction", "RwTransaction"})
          => /\ last'.err = "BadRslot"
             /\ wrapper'[Top(t)] = wrapper[Top(t)]
             /\ txn'[Top(t)] = txn[Top(t)]]_vars

\* C21: when create_db returns to a thread that has an open transaction, it
\* returns Err(BadRslot); and no thread waits inside create_db for the write
\* mutex that its own read-write transaction holds.
C21_CreateDbBadRslot ==
    /\ [][\A t \in Threads :
             (/\ pc[t] # "ready"
              /\ pc'[t] = "ready"
              /\ last'.op = "create_db"
              /\ wrapper[Top(t)].type \in {"RoTransaction", "RwTransaction"})
             => last'.err = "BadRslot"]_vars
    /\ [](\A t \in Threads : ~(pc[t] = "create_db:begin" /\ wmutex = Top(t)))

\* C26: put, del and clear_db can be called only on a RwTransaction, whose
\* engine transaction is a read-write one, and every RwCursor of a running
\* transaction is a cursor of a RwTransaction: no write-capable cursor is bound
\* to a read-only transaction.
C26_MutationNeedsRw ==
    /\ \A h \in Handles :
          (\/ \E kv \in Writes, f \in WriteFlagSets : ENABLED RwTransaction_put(h, kv[1], kv[2], f)
           \/ \E k \in Keys : ENABLED RwTransaction_del(h, k)
           \/ ENABLED RwTransaction_clear_db(h)
           \/ ENABLED open_rw_cursor(h))
          => wrapper[h].type = "RwTransaction" /\ ~txn[h].rdonly
    /\ \A c \in Cursors :
          (cursor[c].owner = "RwCursor" /\ ~cursor[c].ended)
          => /\ wrapper[cursor[c].txn].type = "RwTransaction"
             /\ ~txn[cursor[c].txn].rdonly

\* C23: in the step in which del(db, k, None) returns Ok to a read-write
\* transaction, get(db, k) in that transaction becomes Err(NotFound) and get of
\* every other key returns what it returned before; del of a key that is
\* absent returns Err(NotFound) and leaves the transaction's contents and the
\* committed contents as they were; del returns nothing but Ok and
\* Err(NotFound).
C23_Delete ==
    [][\A h \in Handles, k \in Keys :
          (last'.op = "del" /\ last'.h = h /\ last'.via = k)
          => /\ last'.err \in {"none", "NotFound"}
             /\ last'.err = "none"
                => /\ TransactionExt_get(h, k)' = Err(from_err_code(MDB_NOTFOUND))
                   /\ \A j \in Keys \ {k} :
                         TransactionExt_get(h, j)' = TransactionExt_get(h, j)
             /\ TransactionExt_get(h, k) = Err(from_err_code(MDB_NOTFOUND))
                => /\ last'.err = "NotFound"
                   /\ txn' = txn
                   /\ store' = store]_vars

C23_Witness ==
    /\ last.op = "del"
    /\ last.err = "none"
    /\ Usable(last.h, "RwTransaction")
    /\ snap[last.h][last.via] \in Vals
    /\ TransactionExt_get(last.h, last.via) = Err(from_err_code(MDB_NOTFOUND))
    /\ \E j \in Keys \ {last.via} : TransactionExt_get(last.h, j) = Ok("v1")

\* C25: reserve(db, k, len, flags) that returns Ok hands out a writable view of
\* exactly len bytes that belongs to key k, with len bytes stored for k; while
\* the view is held no call on its transaction can be made; a write that
\* fills the view makes get(db, k) return the bytes written, len of them; and
\* once commit has returned Ok to the transaction, its parent (for a nested
\* transaction) or a transaction begun afterwards gets those bytes for k.
C25_Reserve ==
    /\ [](\A h \in Handles :
            held[h].via = "reserve"
            => /\ held[h].excl
               /\ ~CanOperate(h)
               /\ \A k \in Keys, len \in Lens, f \in WriteFlagSets :
                     ~ENABLED RwTransaction_reserve(h, k, len, f))
    /\ [][/\ \A h \in Handles, k \in Keys, len \in Lens, f \in WriteFlagSets :
               (RwTransaction_reserve(h, k, len, f) /\ last'.err = "none")
               => /\ held'[h].via = "reserve"
                  /\ held'[h].key = k
                  /\ held'[h].len = len
                  /\ txn'[h].view[k] = Uninit(len)
          /\ \A h \in Handles, v \in Vals :
               BufWriter_write(h, v)
               => /\ Size(v) = held[h].len
                  /\ TransactionExt_get(h, held[h].key)' = Ok(v)
          /\ \A h \in Handles, k \in Keys :
               (Ends(h, "commit_ok") /\ exp[h][k] \in Vals /\ exp[h][k] # Base(h)[k])
               => IF wrapper[h].via = "begin_nested_txn"
                  THEN TransactionExt_get(Parent(h), k)' = Ok(exp[h][k])
                  ELSE BegunNowGet(k)' = Ok(exp[h][k])]_vars

C25_Witness ==
    /\ last.op = "commit_ok"
    /\ last.via = "begin_rw_txn"
    /\ last.dirty
    /\ BegunNowGet("k1") = Ok("v2")
    /\ BegunNowGet("k2") = Ok("v1")

\* C22: the named database exists for open_db from the commit of the create_db
\* that made it to the commit of a transaction that dropped it.  The
\* transaction of an open_db or create_db call sees the committed database;
\* open_db's lookup of the name in a transaction that does not see the
\* database returns Err(NotFound), and in one that sees it succeeds, after
\* which the call returns Ok; create_db with the name leaves the database in
\* its transaction and its commit makes it the committed one; drop_db removes
\* it from its transaction, and the commit of a top-level transaction makes the
\* database it sees the committed one.  Nothing else changes the committed
\* database.
C22_NamedLifecycle ==
    [][/\ \A t \in Threads :
            LET i == Internal(t) IN
            /\ (/\ pc[t] \in {"open_db:begin", "create_db:begin"}
                /\ pc'[t] \in {"open_db:open", "create_db:create"})
                  => txn'[i].named = dstore
            /\ (pc[t] = "open_db:open" /\ pc'[t] # pc[t])
                  => IF txn[i].named.exists
                     THEN pc'[t] = "open_db:commit"
                     ELSE \/ /\ pc'[t] = "open_db:commit"
                             /\ last'.op = "dbi_open"
                             /\ last'.via = None
                          \/ /\ pc'[t] = "ready"
                             /\ last'.op = "open_db"
                             /\ last'.err = "NotFound"
            /\ (pc[t] = "open_db:commit" /\ pc'[t] # pc[t])
                  => pc'[t] = "open_db:drop"
            /\ (pc[t] = "open_db:drop" /\ pc'[t] # pc[t])
                  => last'.op = "open_db" /\ last'.err = "none"
            /\ (/\ pc[t] = "create_db:create"
                /\ pc'[t] = "create_db:commit"
                /\ last'.via = DbName)
                  => txn'[i].named.exists
            /\ (pc[t] = "create_db:commit" /\ pc'[t] = "create_db:drop")
                  => dstore' = txn[i].named
            /\ (pc[t] = "create_db:drop" /\ pc'[t] # pc[t])
                  => last'.op = "create_db" /\ last'.err = "none"
       /\ \A h \in Handles :
            /\ (last'.op = "drop_db" /\ last'.h = h /\ last'.err = "none")
                  => ~txn'[h].named.exists
            /\ (/\ last'.op = "commit_ok"
                /\ last'.h = h
                /\ last'.via = "begin_rw_txn")
                  => dstore' = txn[h].named
       /\ dstore' # dstore
            => \/ last'.op = "commit_ok" /\ last'.via = "begin_rw_txn"
               \/ \E t \in Threads :
                     pc[t] = "create_db:commit" /\ pc'[t] = "create_db:drop"
      ]_vars

\* open_db returned Err(NotFound) after the database had been created and a
\* drop of it committed.
C22_Witness ==
    /\ last.op = "open_db"
    /\ last.err = "NotFound"
    /\ dstore.dropped
    /\ ~dstore.exists
    /\ \A t \in Threads : pc[t] = "ready"
    /\ \A h \in AllHandles : txn[h].state = "free"

\* C24: a put on the named database with MDB_NOOVERWRITE and a key that is
\* present returns Err(KeyExist) and leaves the database as it was; a put
\* without flags that returns Ok leaves, in a database without MDB_DUPSORT, the
\* value as the only value of the key, and in one with MDB_DUPSORT the value
\* added to the duplicates the key had; the other keys keep their values.
C24_Put ==
    [][\A h \in CursorHandles, kv \in DWrites, f \in WriteFlagSets :
          RwTransaction_put_named(h, kv[1], kv[2], f)
          => LET k == kv[1]
                 v == kv[2]
                 db == txn[h].named
             IN /\ (NoOverwriteBit(f) /\ db.data[k] # {})
                      => /\ last'.err = "KeyExist"
                         /\ txn'[h].named = db
                /\ (f = NoFlags /\ last'.err = "none")
                      => /\ txn'[h].named.data[k] =
                               IF DupSortBit(db.flags) THEN db.data[k] \cup {v} ELSE {v}
                         /\ \A x \in DKeys \ {k} :
                               txn'[h].named.data[x] = db.data[x]
                /\ last'.err \in {"none", "KeyExist", "MapFull"}
                /\ last'.err = "KeyExist" => NoOverwriteBit(f) /\ db.data[k] # {}]_vars

\* A put without flags has added a third duplicate to a key.
C24_Witness ==
    \E h \in CursorHandles :
        /\ last.op = "put"
        /\ last.h = h
        /\ last.err = "none"
        /\ last.via = "k1"
        /\ DupSortBit(txn[h].named.flags)
        /\ txn[h].named.data["k1"] = DVals

\* The operations after which a successful get returns no key.
NoKeyOps ==
    {"MDB_SET", "MDB_FIRST_DUP", "MDB_LAST_DUP", "MDB_GET_BOTH",
     "MDB_GET_BOTH_RANGE", "MDB_GET_MULTIPLE"}

\* C28: the key a successful cursor get returns depends only on the
\* operation: None for SET, FIRST_DUP, LAST_DUP, GET_BOTH, GET_BOTH_RANGE and
\* GET_MULTIPLE, and Some(key of the pair the cursor is at) for the others.
C28_KeyEcho ==
    [][\A c \in Cursors, op \in NavOps : \A a \in NavArgs(op) :
          ReadCursor_get(c, op, a[1], a[2], a[3])
          => LET result == ReadCursor_get_result(c, op, a[1], a[2], a[3])
             IN result.ok
                  => result.val.key = IF op \in NoKeyOps THEN None ELSE cursor'[c].pos]_vars

\* The result is Ok of the pair of key x and its value in a unique-key
\* database with the data D.
IsPair(result, D, x) ==
    /\ result.ok
    /\ result.val.key = x
    /\ D[x] # {}
    /\ \A v \in D[x] : result.val.data = <<v>>

IsNotFound(result) == ~result.ok /\ result.err.variant = "NotFound"

\* C27: on a database with unique keys, FIRST returns the smallest key and its
\* value, LAST the largest, NEXT and PREV the key immediately after and before
\* the current position, GET_CURRENT the pair at the position without moving,
\* SET_RANGE(k) the pair of the smallest key greater than or equal to k, and a
\* move past either end returns Err(NotFound).
C27_Navigation ==
    [][\A c \in Cursors,
          op \in {"MDB_FIRST", "MDB_LAST", "MDB_NEXT", "MDB_PREV",
                  "MDB_GET_CURRENT", "MDB_SET_RANGE"} :
          \A a \in NavArgs(op) :
             (ReadCursor_get(c, op, a[1], a[2], a[3]) /\ ~DupSortBit(CursorFlags(c)))
             => LET result == ReadCursor_get_result(c, op, a[1], a[2], a[3])
                    D == CursorData(c)
                    pos == cursor[c].pos
                    present == {x \in DKeys : D[x] # {}}
                    \* The keys a search or a move can come to, and the one
                    \* of them it comes to.
                    Least(S, x) == x \in S /\ \A y \in S : Rank(x) <= Rank(y)
                    Most(S, x) == x \in S /\ \A y \in S : Rank(x) >= Rank(y)
                    Found(x) == IsPair(result, D, x) /\ cursor'[c].pos = x
                    Up(S) == IF S = {} THEN IsNotFound(result)
                             ELSE \E x \in S : Least(S, x) /\ Found(x)
                    Down(S) == IF S = {} THEN IsNotFound(result)
                               ELSE \E x \in S : Most(S, x) /\ Found(x)
                IN CASE op = "MDB_FIRST" -> Up(present)
                     [] op = "MDB_LAST" -> Down(present)
                     [] op = "MDB_NEXT" ->
                          pos # Unset
                          => /\ Up({x \in present : Rank(x) > Rank(pos)})
                             /\ IsNotFound(result) => cursor'[c].pos = pos
                     [] op = "MDB_PREV" ->
                          pos # Unset
                          => /\ Down({x \in present : Rank(x) < Rank(pos)})
                             /\ IsNotFound(result) => cursor'[c].pos = pos
                     [] op = "MDB_GET_CURRENT" ->
                          pos # Unset => Found(pos)
                     [] op = "MDB_SET_RANGE" ->
                          a[1] # None
                          => Up({x \in present : Rank(x) >= Rank(a[1])})]_vars

\* C29: in a database with MDB_DUPSORT, positioning on a key comes to its
\* smallest value, and every NEXT_DUP comes to the smallest value of the key
\* above the one the cursor is at, so that the N values of the key are visited
\* in order, each once; the NEXT_DUP at the largest value returns Err(NotFound),
\* does not move to the next key and leaves the cursor at the largest value;
\* PREV_DUP comes to the largest value of the key below the one the cursor is
\* at.
C29_NextDup ==
    [][\A c \in Cursors, op \in {"MDB_SET", "MDB_SET_KEY", "MDB_NEXT_DUP", "MDB_PREV_DUP"} :
          \A a \in NavArgs(op) :
             (/\ last'.op = "get"
              /\ last'.via = op
              /\ DupSortBit(CursorFlags(c))
              /\ ReadCursor_get(c, op, a[1], a[2], a[3]))
             => LET result == ReadCursor_get_result(c, op, a[1], a[2], a[3])
                    D == CursorData(c)
                    pos == cursor[c].pos
                    dpos == cursor[c].dpos
                    Visits(x, v) ==
                        /\ result.ok
                        /\ result.val.data = <<v>>
                        /\ cursor'[c].pos = x
                        /\ cursor'[c].dpos = v
                    above == {w \in D[pos] : VRank(w) > VRank(dpos)}
                    below == {w \in D[pos] : VRank(w) < VRank(dpos)}
                IN CASE op \in {"MDB_SET", "MDB_SET_KEY"} ->
                          (a[1] # None /\ D[a[1]] # {})
                          => \E v \in D[a[1]] :
                                /\ \A w \in D[a[1]] : VRank(v) <= VRank(w)
                                /\ Visits(a[1], v)
                     [] op = "MDB_NEXT_DUP" ->
                          (pos # Unset /\ dpos # Unset)
                          => IF above = {}
                             THEN /\ IsNotFound(result)
                                  /\ cursor'[c].pos = pos
                                  /\ cursor'[c].dpos = dpos
                             ELSE \E v \in above :
                                     /\ \A w \in above : VRank(v) <= VRank(w)
                                     /\ Visits(pos, v)
                     [] op = "MDB_PREV_DUP" ->
                          (pos # Unset /\ dpos # Unset /\ below # {})
                          => \E v \in below :
                                /\ \A w \in below : VRank(v) >= VRank(w)
                                /\ Visits(pos, v)]_vars

\* The NEXT_DUP after the third and last value of k1 has returned Err(NotFound),
\* with a further key in the database.
C29_Witness ==
    \E c \in Cursors :
        /\ last.op = "get"
        /\ last.via = "MDB_NEXT_DUP"
        /\ last.err = "NotFound"
        /\ cursor[c].open
        /\ cursor[c].dbi = NAMED
        /\ DupSortBit(CursorFlags(c))
        /\ CursorData(c)["k1"] = DVals
        /\ CursorData(c)["k2"] # {}
        /\ cursor[c].pos = "k1"
        /\ cursor[c].dpos = "v3"

\* C30: in a database with MDB_DUPSORT and MDB_DUPFIXED, GET_MULTIPLE at a
\* duplicate of a key returns Ok with key None and, as data, the duplicates of
\* the key on the page of that duplicate, in order (at the first duplicate:
\* those of the first page), and leaves the cursor at the last of them; a
\* NEXT_MULTIPLE at the last duplicate of the key returns Err(NotFound) and
\* leaves the cursor there, and one before it returns the duplicates of the
\* page of the next duplicate.
C30_Multiple ==
    [][\A c \in Cursors, op \in {"MDB_GET_MULTIPLE", "MDB_NEXT_MULTIPLE"} :
          \A a \in NavArgs(op) :
             (/\ last'.op = "get"
              /\ last'.via = op
              /\ DupFixedBit(CursorFlags(c))
              /\ cursor[c].pos # Unset
              /\ cursor[c].dpos # Unset
              /\ ReadCursor_get(c, op, a[1], a[2], a[3]))
             => LET result == ReadCursor_get_result(c, op, a[1], a[2], a[3])
                    pos == cursor[c].pos
                    dpos == cursor[c].dpos
                    S == CursorData(c)[pos]
                    Index(w) == Cardinality({u \in S : VRank(u) < VRank(w)})
                    OnPage(v) == {w \in S : Index(w) \div PageDups = Index(v) \div PageDups}
                    \* data is the values of P, ascending.
                    Concat(data, P) ==
                        /\ Len(data) = Cardinality(P)
                        /\ {data[i] : i \in 1 .. Len(data)} = P
                        /\ \A i \in 1 .. Len(data) - 1 : VRank(data[i]) < VRank(data[i + 1])
                    Batch(v, key) ==
                        /\ result.ok
                        /\ result.val.key \in key
                        /\ Concat(result.val.data, OnPage(v))
                        /\ cursor'[c].pos = pos
                        /\ cursor'[c].dpos \in OnPage(v)
                        /\ \A w \in OnPage(v) : VRank(w) <= VRank(cursor'[c].dpos)
                    above == {w \in S : VRank(w) > VRank(dpos)}
                IN IF op = "MDB_GET_MULTIPLE"
                   THEN Batch(dpos, {None})
                   ELSE IF above = {}
                   THEN /\ IsNotFound(result)
                        /\ cursor'[c].pos = pos
                        /\ cursor'[c].dpos = dpos
                   ELSE \E v \in above :
                           /\ \A w \in above : VRank(v) <= VRank(w)
                           /\ Batch(v, {None, pos})]_vars

\* GET_MULTIPLE at the first duplicate of k1 has returned the two duplicates of
\* the key, which fill its page, and the NEXT_MULTIPLE after it has returned
\* Err(NotFound).
C30_Witness ==
    \E c \in Cursors :
        /\ last.op = "get"
        /\ last.via = "MDB_NEXT_MULTIPLE"
        /\ last.err = "NotFound"
        /\ cursor[c].open
        /\ DupFixedBit(CursorFlags(c))
        /\ Cardinality(CursorData(c)["k1"]) = PageDups
        /\ CursorData(c)["k2"] # {}
        /\ cursor[c].pos = "k1"
        /\ cursor[c].dpos = "v2"

\* The engine's status codes.
EngineCodes == -30799 .. -30780

\* C33: from_err_code maps each of the 20 engine status codes to a variant of
\* its own, no two codes to the same one, and every other integer c to
\* Other(c); to_err_code of the error from_err_code(c) made is c.
C33_ErrCodes ==
    conv.op # "none"
    => /\ conv.code \in EngineCodes
            => /\ conv.error.variant # "Other"
               /\ \A c \in EngineCodes \ {conv.code} : from_err_code(c) # conv.error
       /\ conv.code \notin EngineCodes
            => conv.error = LmdbError("Other", conv.code)
       /\ conv.op = "to_err_code" => conv.back = conv.code

\* The code of BadDbi, the last of the engine's, and the largest c_int have
\* come back from the two conversions.
C33_Witness ==
    /\ conv.op = "to_err_code"
    /\ \/ conv.code = MDB_BAD_DBI /\ conv.error.variant = "BadDbi"
       \/ conv.code = 2147483647 /\ conv.error.variant = "Other"
    /\ conv.back = conv.code

\* What a call of next on the Items c, in a step in which the engine returned
\* success or MDB_NOTFOUND, hands to its caller: the pair of the smallest key
\* above the position with its value, the cursor then being at that key, or
\* None when there is no key above the position.
ItemsYield(c) ==
    LET h == cursor[c].txn
        view == txn[h].view
        pos == cursor[c].pos
        present == {k \in Keys : view[k] # Absent}
        ahead == IF pos = Unset THEN present ELSE {k \in present : Rank(k) > Rank(pos)}
    IN /\ last'.err = "none"
            => /\ last'.via \in ahead
               /\ \A y \in ahead : Rank(last'.via) <= Rank(y)
               /\ cursor'[c].pos = last'.via
               /\ mdb_cursor_get(c, cursor[c].op, None, None).data = <<view[last'.via]>>
       /\ last'.err = "NotFound"
            => /\ ahead = {}
               /\ last'.via = None
       /\ ahead = {} => last'.err = "NotFound"

\* A call of next on the Items c whose transaction runs, in which the engine
\* returned success or MDB_NOTFOUND.
ItemsCall(c) ==
    /\ last'.op = "next"
    /\ last'.err \in {"none", "NotFound"}
    /\ ~cursor[c].ended
    /\ Items_next(c)

C32_Surfaced ==
    [][/\ \A c \in Cursors, op \in ItemsOps, k \in {None, "k1"} :
             (last'.op = "get" /\ last'.via = op /\ ReadCursor_get(c, op, k, None, FALSE))
             => (mdb_cursor_get(c, op, k, None).rc \notin {MDB_SUCCESS, MDB_NOTFOUND}
                   => ~ReadCursor_get_result(c, op, k, None, FALSE).ok)
       /\ \A c \in Cursors :
             (/\ last'.op = "next"
              /\ last'.err \notin {"none", "NotFound"}
              /\ ~cursor[c].ended
              /\ Items_next(c))
             => /\ last'.via \in {None, "panic"}
                /\ cursor'[c].op = cursor[c].op]_vars

OpenCalls(config) ==
    <<"mdb_env_create">>
    \o (IF "max_readers" \in config THEN <<"mdb_env_set_maxreaders">> ELSE <<>>)
    \o (IF "max_dbs" \in config THEN <<"mdb_env_set_maxdbs">> ELSE <<>>)
    \o (IF "map_size" \in config THEN <<"mdb_env_set_mapsize">> ELSE <<>>)
    \o <<"mdb_env_open">>

\* The calls made on the MDB_env are the first calls of OpenCalls, followed by
\* no mdb_env_close while the Environment exists, by none when mdb_env_create
\* failed, and by exactly one otherwise.
EnvClosedOnce(e) ==
    LET made == SelectSeq(e.calls, LAMBDA c : c # "mdb_env_close")
        closes == Len(e.calls) - Len(made)
    IN /\ Len(made) >= 1 /\ Len(made) <= Len(OpenCalls(e.config))
       /\ made = SubSeq(OpenCalls(e.config), 1, Len(made))
       /\ e.value => e.calls = OpenCalls(e.config)
       /\ ~e.value => /\ closes = (IF Len(made) = 1 THEN 0 ELSE 1)
                      /\ e.calls = made \o [i \in 1 .. closes |-> "mdb_env_close"]

\* C39: open applies the options that were set, in the order max readers, max
\* dbs, map size, before mdb_env_open; a failing call after mdb_env_create
\* closes the MDB_env once and returns Err with no Environment; an Environment
\* is closed once, when it is dropped, and it is dropped only when every
\* engine transaction begun on it has ended.
C39_EnvClosedOnce ==
    [][/\ EnvClosedOnce(env')
       /\ last'.op = "open" => (last'.err = "none" <=> env'.value)
       /\ (env.value /\ ~env'.value)
          => \A h \in AllHandles : txn[h].state = "free"]_vars

\* The same without the engine transaction that a failed renew leaves behind.
C39_EnvClosedOnceWrappers ==
    [][/\ EnvClosedOnce(env')
       /\ last'.op = "open" => (last'.err = "none" <=> env'.value)
       /\ (env.value /\ ~env'.value)
          => \A h \in Handles : wrapper[h].type = "none"]_vars

\* The error kind a call hands to its caller when the engine returned rc:
\* "none" stands for Ok.
ResultOf(rc) == IF rc = MDB_SUCCESS THEN "none" ELSE from_err_code(rc).variant

Results(S) == {ResultOf(rc) : rc \in S}

\* The call made by this step returned Ok without a record: the engine could
\* return MDB_SUCCESS.
SilentOk(S) == MDB_SUCCESS \in S /\ last' = NoLast

\* The call made by this step returned the Err of one of the statuses S other
\* than MDB_SUCCESS, as op.
ReturnedErr(op, S) ==
    /\ last'.op = op
    /\ last'.err # "none"
    /\ last'.err \in Results(S)

\* The statuses of the engine call that open_db or create_db makes at stage at.
DbiStageRcs(t, at) ==
    CASE at \in {"open_db:begin"} -> mdb_txn_begin_rcs(t, NULL, MDB_RDONLY)
      [] at \in {"create_db:begin"} -> mdb_txn_begin_rcs(t, NULL, NoFlags)
      [] at = "open_db:open" ->
           UNION {mdb_dbi_open_rcs(Internal(t), name, NoFlags) : name \in Names}
      [] at = "create_db:create" ->
           UNION {mdb_dbi_open_rcs(Internal(t), name, flags + MDB_CREATE) :
                    name \in Names, flags \in DbFlagSets}
      [] at \in {"open_db:commit", "create_db:commit"} ->
           mdb_txn_commit_rcs(Internal(t))
      [] OTHER -> {}

\* C34: every fallible operation returns Ok exactly when the engine returned
\* MDB_SUCCESS, and its effect is the engine's, and otherwise the Err of the
\* one kind from_err_code gives for the engine's status, with no effect;
\* NotFound and KeyExist come back as Err and nothing panics.
C34_TypedResults ==
    [][/\ \A t \in CursorThreads :
            /\ (last'.op \in {"none", "begin_ro_txn"} /\ begin_ro_txn(t))
               => LET S == mdb_txn_begin_rcs(t, NULL, MDB_RDONLY) IN
                  \/ SilentOk(S) /\ wrapper'[Top(t)].type = "RoTransaction"
                  \/ ReturnedErr("begin_ro_txn", S) /\ wrapper' = wrapper /\ txn' = txn
            /\ (last'.op \in {"none", "begin_rw_txn"} /\ begin_rw_txn(t))
               => LET S == mdb_txn_begin_rcs(t, NULL, NoFlags) IN
                  \/ SilentOk(S) /\ wrapper'[Top(t)].type = "RwTransaction"
                  \/ ReturnedErr("begin_rw_txn", S) /\ wrapper' = wrapper /\ txn' = txn
            /\ (last'.op \in {"open_db", "create_db"} /\ pc[t] # "ready")
               => /\ last'.err = "none" <=> pc[t] = last'.op \o ":drop"
                  /\ last'.err # "none" => ReturnedErr(last'.op, DbiStageRcs(t, pc[t]))
       /\ \A h \in CursorHandles :
            /\ \A f \in WriteFlagSets :
                 (last'.op \in {"none", "put"} /\ RwTransaction_put(h, "k1", "v1", f))
                 => LET S == mdb_put_rcs(h, "k1", f) IN
                    \/ SilentOk(S) /\ txn'[h].view["k1"] = "v1"
                    \/ ReturnedErr("put", S) /\ txn' = txn
            /\ \A f \in WriteFlagSets :
                 (last'.op = "reserve" /\ RwTransaction_reserve(h, "k2", 1, f))
                 => /\ last'.err \in Results(mdb_put_rcs(h, "k2", f + MDB_RESERVE))
                    /\ last'.err = "none" => held'[h].via = "reserve"
                    /\ last'.err # "none" => txn' = txn /\ held' = held
            /\ \A k \in Keys :
                 /\ (last'.op = "del" /\ last'.via = k /\ RwTransaction_del(h, k))
                    => /\ last'.err = ResultOf(mdb_del_rc(h, k))
                       /\ last'.err = "none" => txn'[h].view[k] = Absent
                       /\ last'.err # "none" => txn' = txn
                 /\ (last'.op = "txn_get" /\ last'.via = k /\ TransactionExt_get_call(h, k))
                    => /\ last'.err = ResultOf(mdb_get(h, k).rc)
                       /\ last'.err # "none" => held' = held
            /\ (last'.op \in {"commit_ok", "commit_err"} /\ TransactionExt_commit(h))
               => /\ last'.err \in Results(mdb_txn_commit_rcs(h))
                  /\ last'.err = "none" <=> last'.op = "commit_ok"
                  /\ last'.err # "none" => store' = store
            /\ (last'.op \in {"renewed", "renew"} /\ InactiveTransaction_renew(h))
               => /\ last'.err \in Results(mdb_txn_renew_rcs(h))
                  /\ last'.err = "none" <=> last'.op = "renewed"
                  /\ last'.err = "none" <=> wrapper'[h].type = "RoTransaction"
       /\ \A c \in Cursors :
            /\ \A op \in {"MDB_FIRST", "MDB_SET"} :
                 (last'.op = "get" /\ last'.via = op
                  /\ ReadCursor_get(c, op, "k1", None, FALSE))
                 => /\ last'.err = ResultOf(mdb_cursor_get(c, op, "k1", None).rc)
                    /\ last'.err # "none" => held' = held
            /\ \A f \in WriteFlagSets :
                 (last'.op \in {"none", "cursor_put"} /\ WriteCursor_put(c, "k1", "v2", f))
                 => LET S == mdb_cursor_put_rcs(c, "k1", f) IN
                    \/ SilentOk(S) /\ txn'[cursor[c].txn].view["k1"] = "v2"
                    \/ ReturnedErr("cursor_put", S) /\ txn' = txn
            /\ (last'.op \in {"none", "cursor_del"} /\ WriteCursor_del(c))
               => LET S == {mdb_cursor_del_rc(c)} IN
                  \/ SilentOk(S) /\ txn'[cursor[c].txn].view[cursor[c].pos] = Absent
                  \/ ReturnedErr("cursor_del", S) /\ txn' = txn
       /\ \A force \in BOOLEAN :
            (last'.op = "sync" /\ Environment_sync(force))
            => last'.err \in Results(mdb_env_sync_rcs(force))
       /\ last'.err \in {"NotFound", "KeyExist"} => ~crashed' /\ last'.via # "panic"]_vars

\* A put without overwrite of a key that is there came back as Err(KeyExist)
\* to a running writer, and nothing panicked.
C34_Witness ==
    /\ last.op = "put" /\ last.err = "KeyExist"
    /\ ~crashed
    /\ \E h \in CursorHandles : /\ last.h = h
                                /\ wrapper[h].type = "RwTransaction"
                                /\ txn[h].view["k1"] # Absent

\* C40: a successful SET_KEY or SET_RANGE returns Some(key of the pair it came
\* to) for every key slice it is called with, a buffer of the caller or a
\* slice that an earlier get returned.
C40_EchoAnySlice ==
    [][\A c \in Cursors, op \in {"MDB_SET_KEY", "MDB_SET_RANGE"} :
         \A a \in NavArgs(op) :
            (/\ last'.op = "get" /\ last'.via = op /\ last'.err = "none"
             /\ ReadCursor_get(c, op, a[1], a[2], a[3]))
            => /\ cursor'[c].pos # Unset
               /\ ReadCursor_get_result(c, op, a[1], a[2], a[3]).val.key
                    = cursor'[c].pos]_vars

\* The same for the calls whose key slice is a buffer of the caller.
C40_EchoOwnSlice ==
    [][\A c \in Cursors, op \in {"MDB_SET_KEY", "MDB_SET_RANGE"} :
         \A a \in NavArgs(op) :
            (/\ last'.op = "get" /\ last'.via = op /\ last'.err = "none"
             /\ ~a[3]
             /\ ReadCursor_get(c, op, a[1], a[2], a[3]))
            => /\ cursor'[c].pos # Unset
               /\ ReadCursor_get_result(c, op, a[1], a[2], a[3]).val.key
                    = cursor'[c].pos]_vars

\* Thread a waits for dbi_open_mutex, which thread b holds while it waits inside
\* create_db for the write lock that a's transaction holds.
DbiDeadlock(a, b) ==
    /\ a # b
    /\ pc[a] \in {"open_db:lock", "create_db:lock"}
    /\ dbi_open_mutex = b
    /\ pc[b] = "create_db:begin"
    /\ wmutex = Top(a)
    /\ wrapper[Top(a)].type = "RwTransaction"

\* C37: threads that begin write transactions, end them and call open_db and
\* create_db never come to wait for each other: no thread waits for
\* dbi_open_mutex while its holder waits inside create_db for the write lock
\* of the waiting thread.
C37_NoDbiDeadlock == \A a \in Threads, b \in Threads : ~DbiDeadlock(a, b)

\* Thread t returns from open_db or create_db in this step.
DbiReturn(t) ==
    /\ last'.op \in {"open_db", "create_db"}
    /\ last'.h = Internal(t)
    /\ pc[t] # "ready" /\ pc'[t] = "ready"

\* C38: the internal transaction of open_db and create_db runs only while the
\* caller holds dbi_open_mutex; on every return (begin failed, the database
\* open failed, commit failed, or success) the internal transaction has ended,
\* it holds neither the write lock nor a reader slot, and the mutex is free, so
\* that a later call can take it; Ok is returned only after the commit of the
\* internal transaction returned Ok.
C38_DbiCleanReturn ==
    [][\A t \in Threads :
          /\ txn'[Internal(t)].state # "free" => dbi_open_mutex' = t
          /\ DbiReturn(t)
             => /\ pc[t] \in {last'.op \o ":begin", last'.op \o ":open",
                              last'.op \o ":create", last'.op \o ":commit",
                              last'.op \o ":drop"}
                /\ dbi_open_mutex = t /\ dbi_open_mutex' = NoThread
                /\ txn'[Internal(t)].state = "free"
                /\ wmutex' # Internal(t)
                /\ last'.err = "none" <=> pc[t] = last'.op \o ":drop"
                /\ last'.err # "none" => store' = store /\ dstore' = dstore
          /\ (pc'[t] \in {"open_db:drop", "create_db:drop"} /\ pc[t] # pc'[t])
             => /\ pc[t] \in {"open_db:commit", "create_db:commit"}
                /\ txn[Internal(t)].state = "active"
                /\ txn'[Internal(t)].state = "free"
                /\ MDB_SUCCESS \in mdb_txn_commit_rcs(Internal(t))
                /\ ~txn[Internal(t)].rdonly => dstore' = txn[Internal(t)].named]_vars

\* create_db returned the Err of its commit, with the mutex free and no
\* internal transaction left, after an earlier create_db had made the database.
C38_Witness ==
    /\ last.op = "create_db" /\ last.err = "MapFull"
    /\ dbi_open_mutex = NoThread
    /\ wmutex = NULL
    /\ \A t \in Threads : txn[Internal(t)].state = "free" /\ pc[t] = "ready"
    /\ dstore.exists

\* The engine transaction a value of the given type owns is in this state.
OwnedState(type) == IF type = "InactiveTransaction" THEN "reset" ELSE "active"

\* C36: every value that owns an engine handle owns a live one, and the step
\* that ends an engine transaction consumes the one value owning it and leaves
\* none: commit, with Ok or Err, ends the running transaction and leaves no
\* value; reset hands the handle, not ended, to the InactiveTransaction; renew
\* hands it back running, or leaves no value and has not ended it.  So no
\* handle gets a second terminating call or any call after it was ended.
C36_EndedOnce ==
    [][\A h \in Handles :
          /\ (wrapper'[h].type # "none" /\ wrapper'[h].handle = h)
             => txn'[h].state = OwnedState(wrapper'[h].type)
          /\ (txn[h].state \in {"active", "reset"} /\ txn'[h].state = "free")
             => /\ wrapper[h].type # "none" /\ wrapper[h].handle = h
                /\ wrapper'[h] = NoWrapper
                /\ last'.op \in {"commit_ok", "commit_err", "abort"} /\ last'.h = h
          /\ (last'.op \in {"commit_ok", "commit_err", "abort"} /\ last'.h = h)
             => /\ txn[h].state = OwnedState(wrapper[h].type)
                /\ txn'[h].state = "free"
                /\ wrapper'[h] = NoWrapper
          /\ (wrapper[h].type = "RoTransaction" /\ wrapper'[h].type = "InactiveTransaction")
             => /\ txn[h].state = "active" /\ txn'[h].state = "reset"
                /\ wrapper'[h].handle = h
          /\ (last'.op \in {"renewed", "renew"} /\ last'.h = h)
             => /\ wrapper[h].type = "InactiveTransaction" /\ txn[h].state = "reset"
                /\ last'.op = "renewed"
                   => wrapper'[h].type = "RoTransaction" /\ txn'[h].state = "active"
                /\ last'.op = "renew"
                   => wrapper'[h] = NoWrapper /\ txn'[h].state = "reset"]_vars

\* A commit that returned Err has ended the handle and left no value, while the
\* other thread holds an InactiveTransaction on a handle that was reset.
C36_Witness ==
    /\ last.op = "commit_err"
    /\ txn[last.h].state = "free"
    /\ wrapper[last.h] = NoWrapper
    /\ \E h \in Handles : /\ wrapper[h].type = "InactiveTransaction"
                          /\ txn[h].state = "reset"

=============================================================================
